---- MODULE Spec2Model ----
\* Verification model of the strct agent: the Network Mode Manager
\* (package wifi: handlers, apply, applyRouter, applyExtender, teardown,
\* refreshStatus) and the bootstrap wizard (agent.ensureConnectivity,
\* agent.runSetupWizard, setup.StartCaptivePortal, setup.buildMux).
EXTENDS Integers, Sequences, FiniteSets, TLC

\* ───────────────────────── bounds ─────────────────────────
\* number of HTTP requests (POST /api/wifi/config, POST /api/wifi/stop)
MaxRequests == 2
\* number of external commands / file writes that fail in one run
MaxFailures == 1
\* number of command sequences (apply, teardown) in flight at once
MaxInFlight == 1

\* requests in flight when the clients do not wait for an apply to finish
Overlap == 2

\* ───────────────────────── types ──────────────────────────
ModeOff == "off"
ModeRouter == "router"
ModeExtender == "extender"

\* wifi.New: the defaults of the stored configuration
DefaultRouter ==
  [SSID |-> "StrctNet", Password |-> "changeme123",
   SubnetBase |-> "192.168.100", DNSProvider |-> "cloudflare"]

DefaultExtender ==
  [UpstreamSSID |-> "", UpstreamPassword |-> "",
   ExtenderSSID |-> "StrctNet-Ext", ExtenderPassword |-> "changeme123",
   UseSecondRadio |-> FALSE]

InitialState ==
  [Mode |-> ModeOff, Router |-> DefaultRouter, Extender |-> DefaultExtender]

\* the zero value of the Status struct
ZeroStatus ==
  [Mode |-> "", Active |-> FALSE, SSID |-> "", APInterface |-> "",
   SubnetBase |-> "", GatewayIP |-> "", ConnectedIPs |-> 0,
   UpstreamSSID |-> "", Error |-> ""]

\* the request bodies the HTTP client posts
ReqRouter ==
  [Mode |-> ModeRouter,
   Router |-> [SSID |-> "Home5G", Password |-> "supersecret1",
               SubnetBase |-> "192.168.77", DNSProvider |-> "adguard"],
   Extender |-> DefaultExtender]

ReqExtender ==
  [Mode |-> ModeExtender,
   Router |-> DefaultRouter,
   Extender |-> [UpstreamSSID |-> "Upstream", UpstreamPassword |-> "upstreampw1",
                 ExtenderSSID |-> "Ext", ExtenderPassword |-> "extsecret1",
                 UseSecondRadio |-> FALSE]]

ReqOff ==
  [Mode |-> ModeOff, Router |-> DefaultRouter, Extender |-> DefaultExtender]

ReqBadRouter ==
  [Mode |-> ModeRouter,
   Router |-> [SSID |-> "x", Password |-> "short",
               SubnetBase |-> "192.168.77", DNSProvider |-> "adguard"],
   Extender |-> DefaultExtender]

Requests == {ReqRouter, ReqExtender, ReqOff, ReqBadRouter}

\* the outputs "arp -a" can print: the interface of each neighbour entry
ArpOutputs == { <<"eth0">>, <<"wlan0", "wlan0_ap", "wlan1">> }

VARIABLES
  state,    \* WiFi.state: the stored WiFiConfig
  status,   \* WiFi.status: the published Status snapshot
  kern,     \* kernel-level configuration the commands act on
  files,    \* generated config files (hostapd.conf, strct.conf, wpa_supplicant-wlan0.conf)
  gor,      \* goroutines of the manager: 0 is Start's ticker, 1.. are started by handlers
  nreq,     \* HTTP requests served so far
  nfail,    \* command failures so far
  ctxDone,  \* the root context passed to WiFi.Start is cancelled
  reply     \* what the last HTTP handler wrote to its ResponseWriter

wifiVars == <<state, status, kern, files, gor, nreq, nfail, ctxDone, reply>>

VARIABLES
  agent,     \* Agent.New / ensureConnectivity / runSetupWizard: position and result
  radio,     \* the bootstrap radio (wifi.Provider) and the connectivity behind it
  done,      \* the wizard's done channel and what went through it
  portal,    \* StartCaptivePortal: its goroutines, HTTP server, DNS hijack, context
  conn,      \* the goroutines POST /connect started
  nsub       \* POST /connect requests served so far

wizVars == <<agent, radio, done, portal, conn, nsub>>

VARIABLES
  agentStart,  \* Agent.Start: its position and the next service it launches
  wg,          \* Agent.Start's sync.WaitGroup counter
  worker,      \* the worker goroutine of each service: position and Start's result
  critical     \* services whose error Agent.Start logged as "[CRITICAL] Service crashed"

svcVars == <<agentStart, wg, worker, critical>>

VARIABLES
  call,     \* a function under check and its argument
  ret       \* what the function returned

funcVars == <<call, ret>>

VARIABLES
  mock,     \* executil.Mock: the Calls slice
  caller    \* the goroutines invoking the Mock: position and what they read

mockVars == <<mock, caller>>

VARIABLES
  inflight  \* how many requests the HTTP clients keep in flight at the same time

envVars == <<inflight>>

VARIABLES
  adblock,  \* the AdBlock service: state (AdBlockConfig) and status (Status)
  adGor     \* its goroutines: the scheduler loop, the handlers and what they spawn

adVars == <<adblock, adGor>>

auxVars == <<funcVars, mockVars, envVars, adVars>>

\* a validation that does not look at the extender's own SSID
validateConfigNoExtenderSSID(cfg) ==
  CASE cfg.Mode = ModeRouter ->
         IF cfg.Router.SSID = "" THEN "router.ssid is required"
         ELSE IF Len(cfg.Router.Password) < 8
              THEN "router.password must be >= 8 characters"
              ELSE ""
    [] cfg.Mode = ModeExtender ->
         IF cfg.Extender.UpstreamSSID = "" THEN "extender.upstream_ssid is required"
         ELSE IF Len(cfg.Extender.ExtenderPassword) < 8
              THEN "extender.extender_password must be >= 8 characters"
              ELSE ""
    [] cfg.Mode = ModeOff -> ""
    [] OTHER -> "invalid mode: " \o cfg.Mode


\* ───────────────────── pure helpers ──────────────────────
\* validateConfig: "" is a nil error
validateConfig(cfg) ==
  CASE cfg.Mode = ModeRouter ->
         IF cfg.Router.SSID = "" THEN "router.ssid is required"
         ELSE IF Len(cfg.Router.Password) < 8
              THEN "router.password must be >= 8 characters"
              ELSE ""
    [] cfg.Mode = ModeExtender ->
         IF cfg.Extender.UpstreamSSID = "" THEN "extender.upstream_ssid is required"
         ELSE IF cfg.Extender.ExtenderSSID = "" THEN "extender.extender_ssid is required"
         ELSE IF Len(cfg.Extender.ExtenderPassword) < 8
              THEN "extender.extender_password must be >= 8 characters"
              ELSE ""
    [] cfg.Mode = ModeOff -> ""
    [] OTHER -> "invalid mode: " \o cfg.Mode

\* a lookup that uses the map's zero value for a provider it does not know
DnsServersNoFallback(provider) ==
  CASE provider = "cloudflare" -> <<"1.1.1.1", "1.0.0.1">>
    [] provider = "google" -> <<"8.8.8.8", "8.8.4.4">>
    [] provider = "adguard" -> <<"94.140.14.14", "94.140.15.15">>
    [] provider = "quad9" -> <<"9.9.9.9", "149.112.112.112">>
    [] OTHER -> <<"", "">>


\* the dnsServers table of writeDnsmasqConf, with its cloudflare fallback
DnsServers(provider) ==
  CASE provider = "cloudflare" -> <<"1.1.1.1", "1.0.0.1">>
    [] provider = "google" -> <<"8.8.8.8", "8.8.4.4">>
    [] provider = "adguard" -> <<"94.140.14.14", "94.140.15.15">>
    [] provider = "quad9" -> <<"9.9.9.9", "149.112.112.112">>
    [] OTHER -> <<"1.1.1.1", "1.0.0.1">>

\* strings.Count(out, "wlan0") over the interface column of the arp table:
\* "wlan0" and "wlan0_ap" both contain the substring, "wlan1" and "eth0" do not
RECURSIVE CountWlan0(_)
CountWlan0(out) ==
  IF out = <<>> THEN 0
  ELSE (IF Head(out) \in {"wlan0", "wlan0_ap"} THEN 1 ELSE 0) + CountWlan0(Tail(out))

\* the error an external command or file write returns when it fails
CmdError(op) == "exit status 1 (" \o op \o ")"

\* fmt.Errorf("<wrap>: %w", err)
Wrapf(wrap, err) == wrap \o ": " \o err

\* one step of a sequence: checked = the code tests its error and returns on failure
Step(op, checked, wrap) == [op |-> op, checked |-> checked, wrap |-> wrap]

\* ─────────────────── command sequences ───────────────────
\* a teardown that tests every command's error and returns on the first failure
TeardownStepsChecked ==
  << Step("systemctl stop hostapd", TRUE, "stop hostapd"),
     Step("systemctl stop dnsmasq", TRUE, "stop dnsmasq"),
     Step("killall wpa_supplicant", TRUE, "kill wpa_supplicant"),
     Step("killall dhclient", TRUE, "kill dhclient"),
     Step("iptables -t nat -F", TRUE, "flush nat"),
     Step("iptables -F FORWARD", TRUE, "flush FORWARD"),
     Step("iw dev wlan0_ap del", TRUE, "delete wlan0_ap"),
     Step("write ip_forward 0", TRUE, "ip_forward") >>

\* teardown: every command's error is ignored
TeardownSteps ==
  << Step("systemctl stop hostapd", FALSE, ""),
     Step("systemctl stop dnsmasq", FALSE, ""),
     Step("killall wpa_supplicant", FALSE, ""),
     Step("killall dhclient", FALSE, ""),
     Step("iptables -t nat -F", FALSE, ""),
     Step("iptables -F FORWARD", FALSE, ""),
     Step("iw dev wlan0_ap del", FALSE, ""),
     Step("write ip_forward 0", FALSE, "") >>

\* applyRouter assigning the gateway address before it restarts hostapd
RouterStepsAddressFirst ==
  << Step("write hostapd.conf", TRUE, "hostapd config"),
     Step("ip addr flush dev wlan0", FALSE, ""),
     Step("ip addr add gateway dev wlan0", TRUE, "set wlan0 IP"),
     Step("systemctl restart hostapd", TRUE, "start hostapd"),
     Step("ip link set wlan0 up", FALSE, ""),
     Step("write dnsmasq strct.conf", TRUE, "dnsmasq config"),
     Step("systemctl restart dnsmasq", TRUE, "start dnsmasq"),
     Step("write ip_forward 1", FALSE, ""),
     Step("iptables -t nat -F", FALSE, ""),
     Step("iptables -F FORWARD", FALSE, ""),
     Step("iptables -t nat -A POSTROUTING -o eth0 -j MASQUERADE", TRUE, "iptables NAT"),
     Step("iptables -A FORWARD -i wlan0 -o eth0 -j ACCEPT", FALSE, ""),
     Step("iptables -A FORWARD -i eth0 -o wlan0 -j ACCEPT", FALSE, "") >>

\* applyRouter, between reading the config and publishing Status
RouterSteps ==
  << Step("write hostapd.conf", TRUE, "hostapd config"),
     Step("systemctl restart hostapd", TRUE, "start hostapd"),
     Step("ip addr flush dev wlan0", FALSE, ""),
     Step("ip addr add gateway dev wlan0", TRUE, "set wlan0 IP"),
     Step("ip link set wlan0 up", FALSE, ""),
     Step("write dnsmasq strct.conf", TRUE, "dnsmasq config"),
     Step("systemctl restart dnsmasq", TRUE, "start dnsmasq"),
     Step("write ip_forward 1", FALSE, ""),
     Step("iptables -t nat -F", FALSE, ""),
     Step("iptables -F FORWARD", FALSE, ""),
     Step("iptables -t nat -A POSTROUTING -o eth0 -j MASQUERADE", TRUE, "iptables NAT"),
     Step("iptables -A FORWARD -i wlan0 -o eth0 -j ACCEPT", FALSE, ""),
     Step("iptables -A FORWARD -i eth0 -o wlan0 -j ACCEPT", FALSE, "") >>

\* apInterface of applyExtender
APInterface(cfg) == IF cfg.UseSecondRadio THEN "wlan1" ELSE "wlan0_ap"

\* applyExtender, between reading the config and publishing Status
ExtenderSteps(cfg) ==
  (IF cfg.UseSecondRadio THEN << >>
   ELSE << Step("iw dev wlan0_ap del", FALSE, ""),
           Step("iw dev wlan0 interface add wlan0_ap type __ap", TRUE, "create virtual AP interface"),
           Step("ip link set wlan0_ap up", FALSE, "") >>)
  \o
  << Step("write wpa_supplicant-wlan0.conf", TRUE, "wpa_supplicant config"),
     Step("killall wpa_supplicant", FALSE, ""),
     Step("wpa_supplicant -B -i wlan0", TRUE, "start wpa_supplicant"),
     Step("dhclient wlan0", TRUE, "dhclient wlan0"),
     Step("write hostapd.conf", TRUE, "hostapd config"),
     Step("systemctl restart hostapd", TRUE, "start hostapd"),
     Step("ip addr flush dev " \o APInterface(cfg), FALSE, ""),
     Step("ip addr add 192.168.200.1/24 dev " \o APInterface(cfg), TRUE, "set AP interface IP"),
     Step("write dnsmasq strct.conf", TRUE, "dnsmasq config"),
     Step("systemctl restart dnsmasq", FALSE, ""),
     Step("write ip_forward 1", FALSE, ""),
     Step("iptables -t nat -F", FALSE, ""),
     Step("iptables -t nat -A POSTROUTING -o wlan0 -j MASQUERADE", FALSE, ""),
     Step("iptables -A FORWARD -i " \o APInterface(cfg) \o " -o wlan0 -j ACCEPT", FALSE, ""),
     Step("iptables -A FORWARD -i wlan0 -o " \o APInterface(cfg) \o " -j ACCEPT", FALSE, "") >>

\* ─────────────── effects of commands on the system ───────────────
NoKern ==
  [hostapd |-> "none", dnsmasq |-> "none", wpa |-> FALSE, dhclient |-> FALSE,
   vap |-> FALSE, nat |-> {}, fwd |-> {}, ipfwd |-> "0"]

NoFiles ==
  [hostapd |-> [by |-> "none", iface |-> "", ssid |-> "", password |-> ""],
   dnsmasq |-> [by |-> "none", iface |-> "", subnet |-> "", dns |-> << >>],
   wpa |-> [ssid |-> "", psk |-> ""]]

\* writeHostapdConf / writeDnsmasqConf / writeWpaSupplicantConf as called by
\* applyRouter (mode router, cfg = RouterConfig) and applyExtender (mode
\* extender, cfg = ExtenderConfig): each overwrites the whole file
WriteFiles(op, mode, rcfg, ecfg, f) ==
  CASE op = "write hostapd.conf" ->
         [f EXCEPT !.hostapd =
            IF mode = ModeRouter
            THEN [by |-> mode, iface |-> "wlan0", ssid |-> rcfg.SSID,
                  password |-> rcfg.Password]
            ELSE [by |-> mode, iface |-> APInterface(ecfg), ssid |-> ecfg.ExtenderSSID,
                  password |-> ecfg.ExtenderPassword]]
    [] op = "write dnsmasq strct.conf" ->
         [f EXCEPT !.dnsmasq =
            IF mode = ModeRouter
            THEN [by |-> mode, iface |-> "wlan0", subnet |-> rcfg.SubnetBase,
                  dns |-> DnsServers(rcfg.DNSProvider)]
            ELSE [by |-> mode, iface |-> APInterface(ecfg), subnet |-> "192.168.200",
                  dns |-> DnsServers("cloudflare")]]
    [] op = "write wpa_supplicant-wlan0.conf" ->
         [f EXCEPT !.wpa = [ssid |-> ecfg.UpstreamSSID, psk |-> ecfg.UpstreamPassword]]
    [] OTHER -> f

\* what a successful command does to the kernel-level configuration; the
\* daemons start with the config file that is on disk at that moment
RunCommand(op, k, f) ==
  CASE op = "systemctl stop hostapd" -> [k EXCEPT !.hostapd = "none"]
    [] op = "systemctl stop dnsmasq" -> [k EXCEPT !.dnsmasq = "none"]
    [] op = "killall wpa_supplicant" -> [k EXCEPT !.wpa = FALSE]
    [] op = "killall dhclient" -> [k EXCEPT !.dhclient = FALSE]
    [] op = "iptables -t nat -F" -> [k EXCEPT !.nat = {}]
    [] op = "iptables -F FORWARD" -> [k EXCEPT !.fwd = {}]
    [] op = "iw dev wlan0_ap del" -> [k EXCEPT !.vap = FALSE]
    [] op = "write ip_forward 0" -> [k EXCEPT !.ipfwd = "0"]
    [] op = "write ip_forward 1" -> [k EXCEPT !.ipfwd = "1"]
    [] op = "systemctl restart hostapd" -> [k EXCEPT !.hostapd = f.hostapd.by]
    [] op = "systemctl restart dnsmasq" -> [k EXCEPT !.dnsmasq = f.dnsmasq.by]
    [] op = "iw dev wlan0 interface add wlan0_ap type __ap" -> [k EXCEPT !.vap = TRUE]
    [] op = "wpa_supplicant -B -i wlan0" -> [k EXCEPT !.wpa = TRUE]
    [] op = "dhclient wlan0" -> [k EXCEPT !.dhclient = TRUE]
    [] op = "iptables -t nat -A POSTROUTING -o eth0 -j MASQUERADE" ->
         [k EXCEPT !.nat = @ \cup {"eth0"}]
    [] op = "iptables -t nat -A POSTROUTING -o wlan0 -j MASQUERADE" ->
         [k EXCEPT !.nat = @ \cup {"wlan0"}]
    [] op \in {"iptables -A FORWARD -i wlan0 -o eth0 -j ACCEPT",
               "iptables -A FORWARD -i eth0 -o wlan0 -j ACCEPT"} ->
         [k EXCEPT !.fwd = @ \cup {"eth0"}]
    [] op \in {"iptables -A FORWARD -i wlan0_ap -o wlan0 -j ACCEPT",
               "iptables -A FORWARD -i wlan0 -o wlan0_ap -j ACCEPT",
               "iptables -A FORWARD -i wlan1 -o wlan0 -j ACCEPT",
               "iptables -A FORWARD -i wlan0 -o wlan1 -j ACCEPT"} ->
         [k EXCEPT !.fwd = @ \cup {"wlan0"}]
    [] OTHER -> k

\* ───────────────────── goroutines ──────────────────────
Slots == IF Overlap > MaxInFlight THEN Overlap ELSE MaxInFlight
Handlers == 1..Slots
Goroutines == 0..Slots

\* a goroutine slot that is not running (never started, or returned)
Idle ==
  [kind |-> "idle", pc |-> "done", idx |-> 0, mode |-> "",
   rcfg |-> DefaultRouter, ecfg |-> DefaultExtender,
   err |-> "", log |-> << >>, failed |-> 0, failedOp |-> "", abortAt |-> 0]

\* the goroutines that are inside apply() or teardown()
Busy == {g \in Goroutines : gor[g].pc \notin {"done", "select", "arp"}}

\* the slot the next "go" statement uses
HasFreeSlot == Cardinality(Busy) < inflight
FreeSlot ==
  CHOOSE g \in Handlers :
    gor[g].pc = "done" /\ \A h \in Handlers : h < g => gor[h].pc # "done"

\* the commands of the phase goroutine r is in
Program(r) ==
  CASE r.pc = "teardown" -> TeardownSteps
    [] r.pc = "prov" /\ r.mode = ModeRouter -> RouterSteps
    [] r.pc = "prov" /\ r.mode = ModeExtender -> ExtenderSteps(r.ecfg)
    [] OTHER -> << >>

\* an apply() whose switch has no case for ModeOff and falls into a
\* provisioning function's Status write
AfterTeardownFallThrough(r) ==
  CASE r.kind # "apply" -> "done"
    [] r.mode = ModeRouter -> "readcfg"
    [] r.mode = ModeExtender -> "readcfg"
    [] r.mode = ModeOff -> "provstatus"
    [] OTHER -> "seterr"

\* where teardown() returns to: the ticker and handleStop's goroutine end,
\* apply() switches on the mode it read before the teardown
AfterTeardown(r) ==
  CASE r.kind # "apply" -> "done"
    [] r.mode = ModeRouter -> "readcfg"
    [] r.mode = ModeExtender -> "readcfg"
    [] r.mode = ModeOff -> "done"
    [] OTHER -> "seterr"

\* a goroutine that returned: the ticker goroutine stays returned, a handler's
\* goroutine is gone and its slot is free again
Returned(r) == IF r.kind = "ticker" THEN [Idle EXCEPT !.kind = "ticker"] ELSE Idle

\* apply() without its s.teardown() call
ApplyFirstPhaseNoTeardown(mode) == IF mode = ModeOff THEN "done" ELSE "readcfg"

\* the phase apply() enters after reading the mode: s.teardown() comes first
ApplyFirstPhase(mode) == "teardown"

\* Status(): the accessor returns a copy of s.status under the read lock
StatusRead == status

\* teardown() updating Mode and Active in place instead of replacing Status
OffStatusInPlace == [status EXCEPT !.Mode = ModeOff, !.Active = FALSE]

\* Status{Mode: ModeOff, Active: false}
OffStatus == [ZeroStatus EXCEPT !.Mode = ModeOff]

\* a Status literal that reports the configuration it was built from
RouterStatusWithConfig(cfg) ==
  [ZeroStatus EXCEPT !.Mode = ModeRouter, !.Active = TRUE, !.SSID = cfg.SSID,
                     !.APInterface = "wlan0", !.SubnetBase = cfg.SubnetBase,
                     !.GatewayIP = cfg.SubnetBase \o ".1",
                     !.UpstreamSSID = cfg.Password]

\* the Status literal applyRouter publishes
RouterStatus(cfg) ==
  [ZeroStatus EXCEPT !.Mode = ModeRouter, !.Active = TRUE, !.SSID = cfg.SSID,
                     !.APInterface = "wlan0", !.SubnetBase = cfg.SubnetBase,
                     !.GatewayIP = cfg.SubnetBase \o ".1"]

\* the Status literal applyExtender publishes
ExtenderStatus(cfg) ==
  [ZeroStatus EXCEPT !.Mode = ModeExtender, !.Active = TRUE, !.SSID = cfg.ExtenderSSID,
                     !.APInterface = APInterface(cfg), !.SubnetBase = "192.168.200",
                     !.GatewayIP = "192.168.200.1", !.UpstreamSSID = cfg.UpstreamSSID]

\* ───────────────────── initial state ──────────────────────
\* HTTP responses: status code and body
StatusOK == 200
StatusBadRequest == 400
StatusInternalServerError == 500
NoReply == [code |-> 0, body |-> ""]
HttpError(msg, code) == [code |-> code, body |-> msg]
Json(st) == [code |-> StatusOK, body |-> st]
WriteHeader(code) == [code |-> code, body |-> ""]

WifiInit ==
  /\ state = InitialState
  /\ status = ZeroStatus
  /\ kern = NoKern
  /\ files = NoFiles
  /\ gor = [g \in Goroutines |->
              IF g = 0 THEN [Idle EXCEPT !.kind = "ticker", !.pc = "select"] ELSE Idle]
  /\ nreq = 0
  /\ nfail = 0
  /\ ctxDone = FALSE
  /\ reply = NoReply

\* ───────────────────── HTTP handlers ──────────────────────
\* api.Server.Start: the HTTP server serves the routes until the root context
\* is cancelled, then shuts down
ServerUp == ~ctxDone

\* GET /api/wifi/scan: the handler runs "iw dev wlan0 scan" itself and answers
\* with the parsed networks, or with 500 when the command failed
handleScanNetworks ==
  /\ nreq < MaxRequests
  /\ ServerUp
  /\ nreq' = nreq + 1
  /\ \E ok \in BOOLEAN :
       IF ok
       THEN /\ reply' = Json("networks")
            /\ UNCHANGED nfail
       ELSE /\ nfail < MaxFailures
            /\ nfail' = nfail + 1
            /\ reply' = HttpError("scan failed: " \o CmdError("iw dev wlan0 scan"),
                                  StatusInternalServerError)
  /\ UNCHANGED <<state, status, kern, files, gor, ctxDone, wizVars, svcVars, auxVars>>

\* a handler that stores the request before it validates it
handleSetConfigStoreFirst(req) ==
  /\ nreq < MaxRequests
  /\ ServerUp
  /\ HasFreeSlot
  /\ nreq' = nreq + 1
  /\ state' = req
  /\ reply' = IF validateConfig(req) # ""
              THEN HttpError(validateConfig(req), StatusBadRequest)
              ELSE Json("applying")
  /\ IF validateConfig(req) # ""
     THEN UNCHANGED gor
     ELSE gor' = [gor EXCEPT ![FreeSlot] =
                    [Idle EXCEPT !.kind = "apply", !.pc = "start"]]
  /\ UNCHANGED <<status, kern, files, nfail, ctxDone, wizVars, svcVars, auxVars>>

\* a handler that applies the mode itself and answers with the outcome
handleSetConfigInline(req) ==
  /\ nreq < MaxRequests
  /\ ServerUp
  /\ HasFreeSlot
  /\ nreq' = nreq + 1
  /\ reply' = IF validateConfig(req) # ""
              THEN HttpError(validateConfig(req), StatusBadRequest)
              ELSE Json("applied")
  /\ IF validateConfig(req) # ""
     THEN UNCHANGED <<state, status, gor>>
     ELSE /\ state' = req
          /\ status' = OffStatus
          /\ gor' = [gor EXCEPT ![FreeSlot] =
                       [Idle EXCEPT !.kind = "apply", !.pc = "readcfg", !.mode = req.Mode]]
  /\ UNCHANGED <<kern, files, nfail, ctxDone, wizVars, svcVars, auxVars>>

\* POST /api/wifi/config: validate, store, start the apply goroutine, answer
handleSetConfig(req) ==
  /\ nreq < MaxRequests
  /\ ServerUp
  /\ HasFreeSlot
  /\ nreq' = nreq + 1
  /\ reply' = IF validateConfig(req) # ""
              THEN HttpError(validateConfig(req), StatusBadRequest)
              ELSE Json("applying")
  /\ IF validateConfig(req) # ""
     THEN UNCHANGED <<state, gor>>
     ELSE /\ state' = req
          /\ gor' = [gor EXCEPT ![FreeSlot] =
                       [Idle EXCEPT !.kind = "apply", !.pc = "start"]]
  /\ UNCHANGED <<status, kern, files, nfail, ctxDone, wizVars, svcVars, auxVars>>

\* POST /api/wifi/stop: force the mode to off, start a teardown goroutine
handleStop ==
  /\ nreq < MaxRequests
  /\ ServerUp
  /\ HasFreeSlot
  /\ nreq' = nreq + 1
  /\ reply' = WriteHeader(StatusOK)
  /\ state' = [state EXCEPT !.Mode = ModeOff]
  /\ gor' = [gor EXCEPT ![FreeSlot] =
               [Idle EXCEPT !.kind = "teardown", !.pc = "teardown", !.idx = 1]]
  /\ UNCHANGED <<status, kern, files, nfail, ctxDone, wizVars, svcVars, auxVars>>

\* ───────────────────── apply / teardown ──────────────────────
\* apply(): mode := s.state.Mode under the read lock
applyReadMode(g) ==
  /\ gor[g].pc = "start"
  /\ gor' = [gor EXCEPT ![g] = [@ EXCEPT !.mode = state.Mode,
                                         !.pc = ApplyFirstPhase(state.Mode),
                                         !.idx = 1]]
  /\ UNCHANGED <<state, status, kern, files, nreq, nfail, ctxDone, reply, wizVars, svcVars, auxVars>>

\* a sequence that logs the error of a failed step and carries on
NextPcNoReturn(r, prog, abort) ==
  IF r.idx < Len(prog) THEN r.pc
  ELSE IF r.pc = "teardown" THEN "tdstatus" ELSE "provstatus"

\* where a sequence goes after one step: "if err != nil { return ... }" leaves
\* it, the last step of teardown / applyX is followed by the Status write
NextPc(r, prog, abort) ==
  IF abort THEN "seterr"
  ELSE IF r.idx < Len(prog) THEN r.pc
  ELSE IF r.pc = "teardown" THEN "tdstatus" ELSE "provstatus"

\* one s.cmd.Run / os.WriteFile of teardown, applyRouter or applyExtender
RunStep(g) ==
  LET r == gor[g]
      prog == Program(r)
  IN /\ r.pc \in {"teardown", "prov"}
     /\ \E ok \in BOOLEAN :
          LET st == prog[r.idx]
              abort == ~ok /\ st.checked
              nextpc == NextPc(r, prog, abort)
          IN /\ ok \/ nfail < MaxFailures
             /\ nfail' = IF ok THEN nfail ELSE nfail + 1
             /\ kern' = IF ok THEN RunCommand(st.op, kern, files) ELSE kern
             /\ files' = IF ok THEN WriteFiles(st.op, r.mode, r.rcfg, r.ecfg, files)
                         ELSE files
             /\ gor' = [gor EXCEPT ![g] =
                          [r EXCEPT !.log = Append(@, st.op),
                                    !.pc = nextpc,
                                    !.idx = IF nextpc = r.pc THEN @ + 1 ELSE 1,
                                    !.err = IF abort THEN Wrapf(st.wrap, CmdError(st.op))
                                            ELSE @,
                                    !.abortAt = IF abort THEN Len(r.log) + 1 ELSE @,
                                    !.failed = IF ~ok /\ r.pc = "prov" /\ @ = 0
                                               THEN Len(r.log) + 1 ELSE @,
                                    !.failedOp = IF ~ok /\ r.pc = "prov" /\ r.failed = 0
                                                 THEN st.op ELSE @]]
     /\ UNCHANGED <<state, status, nreq, ctxDone, reply, wizVars, svcVars, auxVars>>

\* the end of teardown(): s.status = Status{Mode: ModeOff, Active: false}
teardownStatus(g) ==
  /\ gor[g].pc = "tdstatus"
  /\ status' = OffStatus
  /\ gor' = [gor EXCEPT ![g] =
               IF AfterTeardown(gor[g]) = "done" THEN Returned(gor[g])
               ELSE [@ EXCEPT !.log = Append(@, "Status{off}"),
                              !.pc = AfterTeardown(gor[g]),
                              !.err = IF AfterTeardown(gor[g]) = "seterr"
                                      THEN "unknown mode: " \o gor[g].mode ELSE @]]
  /\ UNCHANGED <<state, kern, files, nreq, nfail, ctxDone, reply, wizVars, svcVars, auxVars>>

\* applyRouter / applyExtender: cfg := s.state.Router / s.state.Extender
readConfig(g) ==
  /\ gor[g].pc = "readcfg"
  /\ gor' = [gor EXCEPT ![g] = [@ EXCEPT !.rcfg = state.Router,
                                         !.ecfg = state.Extender,
                                         !.pc = "prov", !.idx = 1]]
  /\ UNCHANGED <<state, status, kern, files, nreq, nfail, ctxDone, reply, wizVars, svcVars, auxVars>>

\* the end of applyRouter / applyExtender: s.status = Status{...}; return nil
publishStatus(g) ==
  /\ gor[g].pc = "provstatus"
  /\ status' = IF gor[g].mode = ModeRouter THEN RouterStatus(gor[g].rcfg)
               ELSE ExtenderStatus(gor[g].ecfg)
  /\ gor' = [gor EXCEPT ![g] = Returned(gor[g])]
  /\ UNCHANGED <<state, kern, files, nreq, nfail, ctxDone, reply, wizVars, svcVars, auxVars>>

\* handleSetConfig's goroutine replacing the error by a generic message
recordErrorGeneric(g) ==
  /\ gor[g].pc = "seterr"
  /\ status' = [status EXCEPT !.Error = "apply failed"]
  /\ gor' = [gor EXCEPT ![g] = Returned(gor[g])]
  /\ UNCHANGED <<state, kern, files, nreq, nfail, ctxDone, reply, wizVars, svcVars, auxVars>>

\* handleSetConfig's goroutine after apply() returned an error
recordError(g) ==
  /\ gor[g].pc = "seterr"
  /\ status' = [status EXCEPT !.Error = gor[g].err]
  /\ gor' = [gor EXCEPT ![g] = Returned(gor[g])]
  /\ UNCHANGED <<state, kern, files, nreq, nfail, ctxDone, reply, wizVars, svcVars, auxVars>>

\* ───────────────────── Start's goroutine ──────────────────────
\* case <-ticker.C: refreshStatus() up to its early return
tick ==
  /\ gor[0].pc = "select"
  /\ gor' = [gor EXCEPT ![0] = [@ EXCEPT !.pc = IF state.Mode = ModeOff THEN "select"
                                                ELSE "arp"]]
  /\ UNCHANGED <<state, status, kern, files, nreq, nfail, ctxDone, reply, wizVars, svcVars, auxVars>>

\* refreshStatus(): arp -a, then ConnectedIPs and Error are set in place
refreshStatus ==
  /\ gor[0].pc = "arp"
  /\ \E out \in ArpOutputs, ok \in BOOLEAN :
       status' = IF ok THEN [status EXCEPT !.ConnectedIPs = CountWlan0(out),
                                           !.Error = ""]
                 ELSE status
  /\ gor' = [gor EXCEPT ![0] = [@ EXCEPT !.pc = "select"]]
  /\ UNCHANGED <<state, kern, files, nreq, nfail, ctxDone, reply, wizVars, svcVars, auxVars>>

\* the caller of Start cancels the root context
cancelRoot ==
  /\ ~ctxDone
  /\ ctxDone' = TRUE
  /\ UNCHANGED <<state, status, kern, files, gor, nreq, nfail, reply, wizVars, svcVars, auxVars>>

\* case <-ctx.Done(): s.teardown(); return
tickerStop ==
  /\ gor[0].pc = "select"
  /\ ctxDone
  /\ HasFreeSlot
  /\ gor' = [gor EXCEPT ![0] = [@ EXCEPT !.pc = "teardown", !.idx = 1]]
  /\ UNCHANGED <<state, status, kern, files, nreq, nfail, ctxDone, reply, wizVars, svcVars, auxVars>>

\* the clients wait for the goroutine of one request before the next request
Sequential == inflight = MaxInFlight

\* the clients send a request while the goroutine of another is running
Overlapping == inflight = Overlap

\* a body that configures the extender only: the router object is left out
\* and decodes to the zero RouterConfig
ReqExtenderOnly ==
  [Mode |-> ModeExtender,
   Router |-> [SSID |-> "", Password |-> "", SubnetBase |-> "", DNSProvider |-> ""],
   Extender |-> ReqExtender.Extender]

OverlapRequests == {ReqRouter, ReqExtenderOnly}

\* the manager serving overlapping requests
OverlapNext ==
  \/ \E req \in OverlapRequests : handleSetConfig(req)
  \/ handleStop
  \/ \E g \in Handlers : applyReadMode(g)
  \/ \E g \in Goroutines : RunStep(g)
  \/ \E g \in Goroutines : teardownStatus(g)
  \/ \E g \in Handlers : readConfig(g)
  \/ \E g \in Handlers : publishStatus(g)
  \/ \E g \in Handlers : recordError(g)

\* the manager serving overlapping config updates and no stop request
UpdatesNext ==
  \/ \E req \in OverlapRequests : handleSetConfig(req)
  \/ \E g \in Handlers : applyReadMode(g)
  \/ \E g \in Goroutines : RunStep(g)
  \/ \E g \in Goroutines : teardownStatus(g)
  \/ \E g \in Handlers : readConfig(g)
  \/ \E g \in Handlers : publishStatus(g)
  \/ \E g \in Handlers : recordError(g)

\* the manager while the root context is live
WifiNext ==
  \/ \E req \in Requests : handleSetConfig(req)
  \/ handleStop
  \/ handleScanNetworks
  \/ \E g \in Handlers : applyReadMode(g)
  \/ \E g \in Goroutines : RunStep(g)
  \/ \E g \in Goroutines : teardownStatus(g)
  \/ \E g \in Handlers : readConfig(g)
  \/ \E g \in Handlers : publishStatus(g)
  \/ \E g \in Handlers : recordError(g)
  \/ tick
  \/ refreshStatus

\* ═══════════════════ bootstrap wizard ═══════════════════
\* number of POST /connect requests the captive portal receives in one run
MaxSubmissions == 2
\* capacity of the wizard's done channel: make(chan bool, 1)
DoneCap == 1

\* the request bodies posted to /connect
Credentials ==
  { [SSID |-> "", Password |-> "whatever"],
    [SSID |-> "HomeNet", Password |-> "homepass1"] }

Submissions == 1..MaxSubmissions

\* errs.Kind
KindOther == "KindOther"
KindNetwork == "KindNetwork"
KindSystem == "KindSystem"

\* errs.Op of package agent
opNew == "agent.New"
opConnectivity == "agent.ensureConnectivity"

\* a nil error; a non-nil one is the chain of *errs.Error values Unwrap walks,
\* outermost first
NoError == << >>

\* errs.E(args...): a new *Error holding the Op, Kind and Message passed and
\* err as its cause; Kind is set from a Kind argument only, so without one it
\* is the zero Kind whatever the wrapped error's Kind is
E(op, kind, message, err) ==
  << [Op |-> op, Kind |-> kind, Message |-> message] >> \o err

\* errors.As(err, &e); e.Kind: the Kind of the outermost *Error of the chain
KindOf(err) == IF err = NoError THEN KindOther ELSE Head(err).Kind

NoConn ==
  [pc |-> "none", ssid |-> "", password |-> "", resp |-> 0, delayed |-> FALSE,
   joinedWith |-> << >>, ok |-> FALSE, dropped |-> FALSE]

\* nothing of the wizard is running
WizardQuiet ==
  /\ agent = [pc |-> "returned", err |-> NoError, agentOut |-> TRUE, polls |-> 0]
  /\ radio = [fails |-> FALSE, hotspot |-> FALSE, internet |-> TRUE, connects |-> 0]
  /\ done = [buf |-> << >>, sent |-> 0, recv |-> 0]
  /\ portal = [pc |-> "none", watcher |-> "none", srv |-> "none", dns |-> FALSE,
               rule |-> FALSE, devMode |-> FALSE, ctxDone |-> FALSE]
  /\ conn = [i \in Submissions |-> NoConn]
  /\ nsub = 0

\* agent.New is about to call ensureConnectivity: the device may or may not be
\* online, the radio may be one whose Connect always fails, the agent may run
\* in dev mode
WizardInit ==
  /\ agent = [pc |-> "probe", err |-> NoError, agentOut |-> FALSE, polls |-> 0]
  /\ \E f \in BOOLEAN, net \in BOOLEAN :
       radio = [fails |-> f, hotspot |-> FALSE, internet |-> net, connects |-> 0]
  /\ done = [buf |-> << >>, sent |-> 0, recv |-> 0]
  /\ \E dev \in BOOLEAN :
       portal = [pc |-> "none", watcher |-> "none", srv |-> "none", dns |-> FALSE,
                 rule |-> FALSE, devMode |-> dev, ctxDone |-> FALSE]
  /\ conn = [i \in Submissions |-> NoConn]
  /\ nsub = 0

\* wifi.HasInternet(): the probe succeeds only when the device is online
HasInternet == radio.internet

\* ───────────────────── agent ──────────────────────
\* ensureConnectivity: if wifi.HasInternet() { return nil }
ensureConnectivity ==
  /\ agent.pc = "probe"
  /\ agent' = IF HasInternet THEN [agent EXCEPT !.pc = "returned", !.agentOut = TRUE]
              ELSE [agent EXCEPT !.pc = "hotspot"]
  /\ UNCHANGED <<radio, done, portal, conn, nsub, wifiVars, svcVars, auxVars>>

\* runSetupWizard: a.wifi.StartHotspot(); its error is only logged
startHotspot ==
  /\ agent.pc = "hotspot"
  /\ \E ok \in BOOLEAN : radio' = [radio EXCEPT !.hotspot = ok]
  /\ agent' = [agent EXCEPT !.pc = "spawn"]
  /\ UNCHANGED <<done, portal, conn, nsub, wifiVars, svcVars, auxVars>>

\* runSetupWizard: done := make(chan bool, 1); go setup.StartCaptivePortal(...)
startPortal ==
  /\ agent.pc = "spawn"
  /\ agent' = [agent EXCEPT !.pc = "wait"]
  /\ portal' = [portal EXCEPT !.pc = "start"]
  /\ UNCHANGED <<radio, done, conn, nsub, wifiVars, svcVars, auxVars>>

\* runSetupWizard: <-done
receiveDone ==
  /\ agent.pc = "wait"
  /\ done.buf # << >>
  /\ done' = [done EXCEPT !.buf = Tail(@), !.recv = @ + 1]
  /\ agent' = [agent EXCEPT !.pc = "stophotspot"]
  /\ UNCHANGED <<radio, portal, conn, nsub, wifiVars, svcVars, auxVars>>

\* runSetupWizard: a.wifi.StopHotspot()
stopHotspot ==
  /\ agent.pc = "stophotspot"
  /\ radio' = [radio EXCEPT !.hotspot = FALSE]
  /\ agent' = [agent EXCEPT !.pc = "sleep"]
  /\ UNCHANGED <<done, portal, conn, nsub, wifiVars, svcVars, auxVars>>

\* runSetupWizard: time.Sleep(2 * time.Second), then return
settle ==
  /\ agent.pc = "sleep"
  /\ agent' = [agent EXCEPT !.pc = "reprobe"]
  /\ UNCHANGED <<radio, done, portal, conn, nsub, wifiVars, svcVars, auxVars>>

\* ensureConnectivity after the wizard: one probe; on failure agent.New
\* returns no Agent and errs.E(opNew, err)
reprobe ==
  /\ agent.pc = "reprobe"
  /\ agent' = IF HasInternet
              THEN [agent EXCEPT !.pc = "returned", !.agentOut = TRUE,
                                 !.polls = @ + 1]
              ELSE [agent EXCEPT !.pc = "returned", !.polls = @ + 1,
                                 !.err = E(opNew, KindOther, "",
                                           E(opConnectivity, KindNetwork,
                                             "no internet after setup wizard",
                                             NoError))]
  /\ UNCHANGED <<radio, done, portal, conn, nsub, wifiVars, svcVars, auxVars>>

\* ───────────────────── captive portal ──────────────────────
\* StartCaptivePortal up to the shutdown watcher's go statement: the watcher
\* is parked in its select long before the 2 s settle delay of any submission
\* has passed
portalStart ==
  /\ portal.pc = "start"
  /\ portal' = [portal EXCEPT !.pc = IF portal.devMode THEN "listen" ELSE "dns",
                              !.watcher = "select", !.srv = "new"]
  /\ UNCHANGED <<agent, radio, done, conn, nsub, wifiVars, svcVars, auxVars>>

\* real hardware only: StartDNSServer, then the iptables REDIRECT rule
portalDNS ==
  /\ portal.pc = "dns"
  /\ portal' = [portal EXCEPT !.pc = "rule", !.dns = TRUE]
  /\ UNCHANGED <<agent, radio, done, conn, nsub, wifiVars, svcVars, auxVars>>

portalRule ==
  /\ portal.pc = "rule"
  /\ portal' = [portal EXCEPT !.pc = "listen", !.rule = TRUE]
  /\ UNCHANGED <<agent, radio, done, conn, nsub, wifiVars, svcVars, auxVars>>

\* srv.ListenAndServe(): serves until Shutdown; returns at once when the server
\* was shut down already or the port cannot be bound
portalListen ==
  /\ portal.pc = "listen"
  /\ \E bound \in BOOLEAN :
       portal' = IF portal.srv = "closed"
                 THEN [portal EXCEPT !.pc = IF portal.devMode THEN "returned" ELSE "unrule"]
                 ELSE IF bound
                 THEN [portal EXCEPT !.pc = "serving", !.srv = "listening"]
                 ELSE [portal EXCEPT !.pc = IF portal.devMode THEN "returned" ELSE "unrule",
                                     !.srv = "failed"]
  /\ UNCHANGED <<agent, radio, done, conn, nsub, wifiVars, svcVars, auxVars>>

\* a portal that starts its cleanup while the HTTP server is still listening
portalServedEarly ==
  /\ portal.pc = "serving"
  /\ portal' = [portal EXCEPT !.pc = IF portal.devMode THEN "returned" ELSE "unrule"]
  /\ UNCHANGED <<agent, radio, done, conn, nsub, wifiVars, svcVars, auxVars>>

\* ListenAndServe returns http.ErrServerClosed
portalServed ==
  /\ portal.pc = "serving"
  /\ portal.srv = "closed"
  /\ portal' = [portal EXCEPT !.pc = IF portal.devMode THEN "returned" ELSE "unrule"]
  /\ UNCHANGED <<agent, radio, done, conn, nsub, wifiVars, svcVars, auxVars>>

\* deferred, last in first out: iptables -D, then dnsServer.Shutdown()
portalUnrule ==
  /\ portal.pc = "unrule"
  /\ portal' = [portal EXCEPT !.pc = "undns", !.rule = FALSE]
  /\ UNCHANGED <<agent, radio, done, conn, nsub, wifiVars, svcVars, auxVars>>

portalUnDNS ==
  /\ portal.pc = "undns"
  /\ portal' = [portal EXCEPT !.pc = "returned", !.dns = FALSE]
  /\ UNCHANGED <<agent, radio, done, conn, nsub, wifiVars, svcVars, auxVars>>

\* the context given to StartCaptivePortal is cancelled by its owner
cancelPortal ==
  /\ portal.pc # "none"
  /\ ~portal.ctxDone
  /\ portal' = [portal EXCEPT !.ctxDone = TRUE]
  /\ UNCHANGED <<agent, radio, done, conn, nsub, wifiVars, svcVars, auxVars>>

\* shutdown watcher: case <-ctx.Done()
watcherCancelled ==
  /\ portal.watcher = "select"
  /\ portal.ctxDone
  /\ portal' = [portal EXCEPT !.watcher = "shutdown"]
  /\ UNCHANGED <<agent, radio, done, conn, nsub, wifiVars, svcVars, auxVars>>

\* shutdown watcher: done <- true, a send on a channel of capacity DoneCap
\* whose receiver is runSetupWizard
watcherSendDone ==
  /\ portal.watcher = "senddone"
  /\ IF Len(done.buf) < DoneCap \/ agent.pc = "wait"
     THEN /\ done' = [done EXCEPT !.buf = Append(@, TRUE), !.sent = @ + 1]
          /\ portal' = [portal EXCEPT !.watcher = "shutdown"]
     ELSE /\ portal' = [portal EXCEPT !.watcher = "blocked"]
          /\ UNCHANGED done
  /\ UNCHANGED <<agent, radio, conn, nsub, wifiVars, svcVars, auxVars>>

\* shutdown watcher: srv.Shutdown(shutCtx)
watcherShutdown ==
  /\ portal.watcher = "shutdown"
  /\ portal' = [portal EXCEPT !.watcher = "exited", !.srv = "closed"]
  /\ UNCHANGED <<agent, radio, done, conn, nsub, wifiVars, svcVars, auxVars>>

\* a handler whose goroutine calls Connect without the settle delay
handleConnectNoDelay(creds) ==
  /\ portal.srv = "listening"
  /\ nsub < MaxSubmissions
  /\ nsub' = nsub + 1
  /\ conn' = [conn EXCEPT ![nsub + 1] =
                IF creds.SSID = ""
                THEN [NoConn EXCEPT !.pc = "rejected", !.resp = 400]
                ELSE [NoConn EXCEPT !.pc = "connect", !.resp = 200,
                                    !.ssid = creds.SSID,
                                    !.password = creds.Password]]
  /\ UNCHANGED <<agent, radio, done, portal, wifiVars, svcVars, auxVars>>

\* POST /connect: answer 400 to an empty SSID, else write the 200 response
\* and then start the goroutine that will join
handleConnect(creds) ==
  /\ portal.srv = "listening"
  /\ nsub < MaxSubmissions
  /\ nsub' = nsub + 1
  /\ conn' = [conn EXCEPT ![nsub + 1] =
                IF creds.SSID = ""
                THEN [NoConn EXCEPT !.pc = "rejected", !.resp = 400]
                ELSE [NoConn EXCEPT !.pc = "delay", !.resp = 200,
                                    !.ssid = creds.SSID,
                                    !.password = creds.Password]]
  /\ UNCHANGED <<agent, radio, done, portal, wifiVars, svcVars, auxVars>>

\* the goroutine's select: case <-ctx.Done(): return
connectCancelled(i) ==
  /\ conn[i].pc = "delay"
  /\ portal.ctxDone
  /\ conn' = [conn EXCEPT ![i] = [@ EXCEPT !.pc = "returned"]]
  /\ UNCHANGED <<agent, radio, done, portal, nsub, wifiVars, svcVars, auxVars>>

\* the goroutine's select: case <-time.After(2 * time.Second)
connectDelay(i) ==
  /\ conn[i].pc = "delay"
  /\ conn' = [conn EXCEPT ![i] = [@ EXCEPT !.pc = "connect", !.delayed = TRUE]]
  /\ UNCHANGED <<agent, radio, done, portal, nsub, wifiVars, svcVars, auxVars>>

\* wifiMgr.Connect(creds.SSID, creds.Password): on error the goroutine returns;
\* a join brings the device online sooner or later
connectJoin(i) ==
  /\ conn[i].pc = "connect"
  /\ \E ok \in BOOLEAN, net \in BOOLEAN :
       /\ radio.fails => ~ok
       /\ ~ok => net = radio.internet
       /\ radio' = [radio EXCEPT !.connects = @ + 1, !.internet = net]
       /\ conn' = [conn EXCEPT ![i] =
                     [@ EXCEPT !.pc = IF ok THEN "signal" ELSE "returned",
                               !.ok = ok,
                               !.joinedWith = << conn[i].ssid, conn[i].password >>]]
  /\ UNCHANGED <<agent, done, portal, nsub, wifiVars, svcVars, auxVars>>

\* the goroutine sending on done itself, once per successful join
signalDoneDirect(i) ==
  /\ conn[i].pc = "signal"
  /\ IF Len(done.buf) < DoneCap
     THEN /\ done' = [done EXCEPT !.buf = Append(@, TRUE), !.sent = @ + 1]
          /\ conn' = [conn EXCEPT ![i] = [@ EXCEPT !.pc = "returned"]]
     ELSE /\ conn' = [conn EXCEPT ![i] = [@ EXCEPT !.pc = "blocked"]]
          /\ UNCHANGED done
  /\ UNCHANGED <<agent, radio, portal, nsub, wifiVars, svcVars, auxVars>>

\* a plain blocking send: connected <- struct{}{}
signalConnectedBlocking(i) ==
  /\ conn[i].pc = "signal"
  /\ IF portal.watcher = "select"
     THEN /\ portal' = [portal EXCEPT !.watcher = "senddone"]
          /\ conn' = [conn EXCEPT ![i] = [@ EXCEPT !.pc = "returned"]]
     ELSE /\ conn' = [conn EXCEPT ![i] = [@ EXCEPT !.pc = "blocked"]]
          /\ UNCHANGED portal
  /\ UNCHANGED <<agent, radio, done, nsub, wifiVars, svcVars, auxVars>>

\* select { case connected <- struct{}{}: default: } on the unbuffered channel
\* connected: the send happens only if the watcher is parked in its select
signalConnected(i) ==
  /\ conn[i].pc = "signal"
  /\ IF portal.watcher = "select"
     THEN /\ portal' = [portal EXCEPT !.watcher = "senddone"]
          /\ conn' = [conn EXCEPT ![i] = [@ EXCEPT !.pc = "returned"]]
     ELSE /\ conn' = [conn EXCEPT ![i] = [@ EXCEPT !.pc = "returned", !.dropped = TRUE]]
          /\ UNCHANGED portal
  /\ UNCHANGED <<agent, radio, done, nsub, wifiVars, svcVars, auxVars>>

\* the steps the Go scheduler and the timers take on their own
WizardRun ==
  \/ ensureConnectivity \/ startHotspot \/ startPortal \/ receiveDone
  \/ stopHotspot \/ settle \/ reprobe
  \/ portalStart \/ portalDNS \/ portalRule \/ portalListen \/ portalServed
  \/ portalUnrule \/ portalUnDNS
  \/ watcherCancelled \/ watcherSendDone \/ watcherShutdown
  \/ \E i \in Submissions : connectCancelled(i)
  \/ \E i \in Submissions : connectDelay(i)
  \/ \E i \in Submissions : connectJoin(i)
  \/ \E i \in Submissions : signalConnected(i)

\* WizardRun plus what the user and the context's owner do
WizardNext ==
  \/ WizardRun
  \/ \E creds \in Credentials : handleConnect(creds)
  \/ cancelPortal

\* ═══════════════════ Agent.Start ═══════════════════
\* the services main hands to agent.New, in the order of the slice: the WiFi
\* mode manager, the frp tunnel, the API server, the pprof server
Services == << "wifi", "tunnel", "api", "pprof" >>

ServiceSet == {Services[i] : i \in 1..Len(Services)}

\* a Start that blocks in srv.ListenAndServe() until the server is shut down;
\* the other services start a goroutine of their own and return nil at once
Blocking(s) == s \in {"api", "pprof"}

\* err.Error() of the error Start returns: WiFi.Start has no error path
StartError(s) ==
  CASE s = "tunnel" -> "tunnel: frpc binary not found at ./frpc"
    [] s = "api" -> "api.Start: server failed on port 8080: listen tcp :8080: bind: address already in use"
    [] s = "pprof" -> "listen tcp 0.0.0.0:6060: bind: address already in use"
    [] OTHER -> ""

NoWorker == [pc |-> "none", err |-> ""]

\* Agent.Start has been called and has launched nothing yet
ServicesIdle ==
  /\ agentStart = [pc |-> "launch", next |-> 1]
  /\ wg = 0
  /\ worker = [s \in ServiceSet |-> NoWorker]
  /\ critical = {}

\* Agent.Start waits on its WaitGroup: the WiFi manager and the tunnel
\* returned nil from Start, the two HTTP servers are listening
ServicesRunning ==
  /\ agentStart = [pc |-> "wait", next |-> Len(Services) + 1]
  /\ wg = 2
  /\ worker = [s \in ServiceSet |->
                 IF Blocking(s) THEN [pc |-> "serving", err |-> ""]
                 ELSE [pc |-> "done", err |-> ""]]
  /\ critical = {}

\* for _, svc := range a.services { wg.Add(1); go func(s Service) {...}(svc) }
launch ==
  /\ agentStart.pc = "launch"
  /\ LET s == Services[agentStart.next]
     IN /\ wg' = wg + 1
        /\ worker' = [worker EXCEPT ![s] = [@ EXCEPT !.pc = "start"]]
        /\ agentStart' =
             IF agentStart.next = Len(Services)
             THEN [pc |-> "wait", next |-> agentStart.next + 1]
             ELSE [agentStart EXCEPT !.next = @ + 1]
  /\ UNCHANGED <<critical, wifiVars, wizVars, auxVars>>

\* the worker calls s.Start(ctx): Start fails, or returns nil at once, or
\* blocks in ListenAndServe
serviceStart(s) ==
  /\ worker[s].pc = "start"
  /\ \E fails \in BOOLEAN :
       /\ fails => StartError(s) # ""
       /\ worker' = [worker EXCEPT ![s] =
                       IF fails THEN [pc |-> "exit", err |-> StartError(s)]
                       ELSE IF Blocking(s) THEN [pc |-> "serving", err |-> ""]
                       ELSE [pc |-> "exit", err |-> ""]]
  /\ UNCHANGED <<agentStart, wg, critical, wifiVars, wizVars, auxVars>>

\* <-ctx.Done(); srv.Shutdown / srv.Close: ListenAndServe returns
\* http.ErrServerClosed and Start returns nil
serviceShutdown(s) ==
  /\ worker[s].pc = "serving"
  /\ ctxDone
  /\ worker' = [worker EXCEPT ![s] = [pc |-> "exit", err |-> ""]]
  /\ UNCHANGED <<agentStart, wg, critical, wifiVars, wizVars, auxVars>>

\* a worker that cancels the shared context when its service failed, as an
\* errgroup would
workerExitCancels(s) ==
  /\ worker[s].pc = "exit"
  /\ critical' = IF worker[s].err # "" THEN critical \cup {s} ELSE critical
  /\ ctxDone' = (ctxDone \/ worker[s].err # "")
  /\ wg' = wg - 1
  /\ worker' = [worker EXCEPT ![s] = [@ EXCEPT !.pc = "done"]]
  /\ UNCHANGED <<agentStart, state, status, kern, files, gor, nreq, nfail, reply, wizVars, auxVars>>

\* the worker after Start returned: log the error, if any; defer wg.Done()
workerExit(s) ==
  /\ worker[s].pc = "exit"
  /\ critical' = IF worker[s].err # "" THEN critical \cup {s} ELSE critical
  /\ wg' = wg - 1
  /\ worker' = [worker EXCEPT ![s] = [@ EXCEPT !.pc = "done"]]
  /\ UNCHANGED <<agentStart, wifiVars, wizVars, auxVars>>

\* wg.Wait() returns; Agent.Start logs "Agent Stopped" and returns
startReturn ==
  /\ agentStart.pc = "wait"
  /\ wg = 0
  /\ agentStart' = [agentStart EXCEPT !.pc = "returned"]
  /\ UNCHANGED <<wg, worker, critical, wifiVars, wizVars, auxVars>>

\* Agent.Start, its workers, and main's signal context
StartNext ==
  \/ launch
  \/ \E s \in ServiceSet : serviceStart(s)
  \/ \E s \in ServiceSet : serviceShutdown(s)
  \/ \E s \in ServiceSet : workerExit(s)
  \/ startReturn
  \/ cancelRoot

\* the agent shutting down: main's signal context is cancelled, the HTTP
\* servers shut down, the manager's goroutine runs its final teardown
ShutdownNext ==
  \/ cancelRoot
  \/ tickerStop
  \/ \E g \in Goroutines : RunStep(g)
  \/ \E g \in Goroutines : teardownStatus(g)
  \/ \E s \in ServiceSet : serviceShutdown(s)
  \/ \E s \in ServiceSet : workerExit(s)
  \/ startReturn

\* ═══════════════════ command runners and pure functions ═══════════════════

\* no function is under check
NoCall == [fn |-> "none"]
NoRet == [done |-> FALSE]
FuncQuiet == call = NoCall /\ ret = NoRet

\* no Mock is in use
MockQuiet == mock = [Calls |-> << >>] /\ caller = << >>

\* ─────────────── request bodies of POST /api/wifi/config ───────────────
\* a Go string is a sequence of bytes; passwords are given as their UTF-8 bytes
MaxPasswordLen == 9

\* n ASCII letters: n bytes
Ascii(n) == [i \in 1..n |-> 97]

\* n Cyrillic letters: 2n bytes (0xD0 followed by a continuation byte)
Cyrillic(n) == [i \in 1..(2 * n) |-> IF i % 2 = 1 THEN 208 ELSE 191]

Passwords ==
  {Ascii(n) : n \in 6..MaxPasswordLen} \cup {Cyrillic(n) : n \in 3..(MaxPasswordLen \div 2)}

\* what json.Decode can produce for a WiFiConfig: Mode is any string
ConfigInputs ==
  [Mode : {ModeOff, ModeRouter, ModeExtender, "", "bridge"},
   Router : [SSID : {"", "Home"}, Password : Passwords,
             SubnetBase : {"192.168.77"}, DNSProvider : {"adguard"}],
   Extender : [UpstreamSSID : {"", "Upstream"}, UpstreamPassword : {Ascii(8)},
               ExtenderSSID : {"", "Ext"}, ExtenderPassword : Passwords,
               UseSecondRadio : {FALSE}]]

\* a client posts one body to a freshly constructed manager
postConfig ==
  /\ call.fn = "handleSetConfig"
  /\ nreq = 0
  /\ handleSetConfig(call.arg)

\* ─────────────── writeDnsmasqConf ───────────────
Providers == {"cloudflare", "google", "adguard", "quad9", "", "opendns", "AdGuard"}

DnsmasqInputs ==
  [SSID : {"Home"}, Password : {"supersecret1"},
   SubnetBase : {"192.168.77", "10.0.0"}, DNSProvider : Providers]

\* applyRouter's call writeDnsmasqConf(cfg.SubnetBase, cfg.DNSProvider, "wlan0");
\* os.WriteFile can fail, and then the file keeps what it had
writeDnsmasqConf ==
  /\ call.fn = "writeDnsmasqConf"
  /\ ~ret.done
  /\ \E ok \in BOOLEAN :
       IF ok
       THEN /\ files' = WriteFiles("write dnsmasq strct.conf", ModeRouter, call.arg,
                                   DefaultExtender, files)
            /\ ret' = [done |-> TRUE, err |-> ""]
       ELSE /\ UNCHANGED files
            /\ ret' = [done |-> TRUE, err |-> CmdError("write dnsmasq strct.conf")]
  /\ UNCHANGED <<state, status, kern, gor, nreq, nfail, ctxDone, reply,
                 wizVars, svcVars, call, mockVars, envVars, adVars>>

\* ─────────────── executil.DevRunner ───────────────
silentOK ==
  {"iptables", "ip6tables", "iwconfig", "iw", "tc", "killall", "dhclient",
   "wpa_supplicant", "hostapd", "dnsmasq", "tailscale", "tailscaled", "sysctl"}

silentOKSystemctlUnits == {"hostapd", "dnsmasq", "tailscaled"}

\* strings.Contains(script, "/proc/sys") over the scripts that are passed to sh
ContainsProcSys(script) ==
  script \in {"echo 1 > /proc/sys/net/ipv4/ip_forward",
              "echo 0 > /proc/sys/net/ipv4/ip_forward"}

shouldStub(name, args) ==
  \/ name \in silentOK
  \/ /\ name = "systemctl"
     /\ Len(args) >= 2
     /\ args[1] \in {"start", "stop", "restart", "kill", "is-active"}
     /\ args[Len(args)] \in silentOKSystemctlUnits
  \/ /\ name = "sh"
     /\ Len(args) >= 2
     /\ ContainsProcSys(args[2])

\* fakeOutput's two results: the canned output and whether there is one
NoFake == [out |-> "", ok |-> FALSE]
Fake(out) == [out |-> out, ok |-> TRUE]

fakeOutput(name, args) ==
  CASE name = "arp" -> Fake("fakeARP")
    [] name = "ip" ->
         IF Len(args) >= 2 /\ args[1] = "neigh" THEN Fake("fakeIPNeigh")
         ELSE IF Len(args) >= 1 /\ args[1] \in {"addr", "link"} THEN Fake("")
         ELSE NoFake
    [] name = "iw" ->
         IF Len(args) >= 3 /\ args[3] = "scan" THEN Fake("fakeIWScan")
         ELSE IF Len(args) >= 3 /\ args[3] = "station" THEN Fake("fakeStation")
         ELSE Fake("")
    [] name = "tailscale" ->
         IF Len(args) >= 1 /\ args[1] = "status" THEN Fake("fakeTailscaleStatus")
         ELSE NoFake
    [] name = "systemctl" ->
         IF Len(args) >= 2 /\ args[1] = "is-active" THEN Fake("inactive\n")
         ELSE NoFake
    [] OTHER -> NoFake

\* the commands of teardown, applyRouter and applyExtender, name first
TeardownCommands ==
  { <<"systemctl", "stop", "hostapd">>,
    <<"systemctl", "stop", "dnsmasq">>,
    <<"killall", "wpa_supplicant">>,
    <<"killall", "dhclient">>,
    <<"iptables", "-t", "nat", "-F">>,
    <<"iptables", "-F", "FORWARD">>,
    <<"iw", "dev", "wlan0_ap", "del">> }

RouterCommands ==
  { <<"systemctl", "restart", "hostapd">>,
    <<"ip", "addr", "flush", "dev", "wlan0">>,
    <<"ip", "addr", "add", "192.168.77.1/24", "dev", "wlan0">>,
    <<"ip", "link", "set", "wlan0", "up">>,
    <<"systemctl", "restart", "dnsmasq">>,
    <<"iptables", "-t", "nat", "-F">>,
    <<"iptables", "-F", "FORWARD">>,
    <<"iptables", "-t", "nat", "-A", "POSTROUTING", "-o", "eth0", "-j", "MASQUERADE">>,
    <<"iptables", "-A", "FORWARD", "-i", "wlan0", "-o", "eth0", "-j", "ACCEPT">>,
    <<"iptables", "-A", "FORWARD", "-i", "eth0", "-o", "wlan0", "-m", "state",
      "--state", "RELATED,ESTABLISHED", "-j", "ACCEPT">> }

ExtenderCommands(apInterface) ==
  { <<"iw", "dev", "wlan0_ap", "del">>,
    <<"iw", "dev", "wlan0", "interface", "add", "wlan0_ap", "type", "__ap">>,
    <<"ip", "link", "set", "wlan0_ap", "up">>,
    <<"killall", "wpa_supplicant">>,
    <<"wpa_supplicant", "-B", "-i", "wlan0", "-c",
      "/etc/wpa_supplicant/wpa_supplicant-wlan0.conf">>,
    <<"dhclient", "wlan0">>,
    <<"systemctl", "restart", "hostapd">>,
    <<"ip", "addr", "flush", "dev", apInterface>>,
    <<"ip", "addr", "add", "192.168.200.1/24", "dev", apInterface>>,
    <<"systemctl", "restart", "dnsmasq">>,
    <<"iptables", "-t", "nat", "-F">>,
    <<"iptables", "-t", "nat", "-A", "POSTROUTING", "-o", "wlan0", "-j", "MASQUERADE">>,
    <<"iptables", "-A", "FORWARD", "-i", apInterface, "-o", "wlan0", "-j", "ACCEPT">>,
    <<"iptables", "-A", "FORWARD", "-i", "wlan0", "-o", apInterface, "-m", "state",
      "--state", "RELATED,ESTABLISHED", "-j", "ACCEPT">> }

ManagerCommands ==
  TeardownCommands \cup RouterCommands
    \cup ExtenderCommands("wlan0_ap") \cup ExtenderCommands("wlan1")

\* commands other components of the agent hand to the same runner
OtherCommands ==
  { <<"arp", "-a">>,
    <<"iw", "dev", "wlan0", "scan">>,
    <<"iw", "dev", "wlan0", "station", "dump">>,
    <<"ip", "neigh", "show">>,
    <<"ip">>,
    <<"tailscale", "status", "--json">>,
    <<"tailscale", "up">>,
    <<"systemctl", "is-active", "hostapd">>,
    <<"systemctl", "restart", "frpc">>,
    <<"sh", "-c", "echo 1 > /proc/sys/net/ipv4/ip_forward">>,
    <<"chmod", "+x", "frpc">> }

DevCommands == ManagerCommands \cup OtherCommands

\* executil.Real: the process is launched; on a development machine its
\* outcome is not determined by the agent
RealErrors == {"", "exit status 1", "executable file not found in $PATH"}
Launched(err) == [done |-> TRUE, launched |-> TRUE, out |-> "real", err |-> err]
Stubbed(out) == [done |-> TRUE, launched |-> FALSE, out |-> out, err |-> ""]

DevRunnerRun ==
  /\ call.fn = "DevRunner.Run"
  /\ ~ret.done
  /\ LET name == Head(call.arg)
         args == Tail(call.arg)
     IN IF shouldStub(name, args)
        THEN ret' = Stubbed("")
        ELSE \E err \in RealErrors : ret' = Launched(err)
  /\ UNCHANGED <<wifiVars, wizVars, svcVars, call, mockVars, envVars, adVars>>

DevRunnerOutput ==
  /\ call.fn = "DevRunner.Output"
  /\ ~ret.done
  /\ LET name == Head(call.arg)
         args == Tail(call.arg)
     IN IF fakeOutput(name, args).ok
        THEN ret' = Stubbed(fakeOutput(name, args).out)
        ELSE \E err \in RealErrors : ret' = Launched(err)
  /\ UNCHANGED <<wifiVars, wizVars, svcVars, call, mockVars, envVars, adVars>>

DevRunnerCombinedOutput ==
  /\ call.fn = "DevRunner.CombinedOutput"
  /\ ~ret.done
  /\ LET name == Head(call.arg)
         args == Tail(call.arg)
     IN IF fakeOutput(name, args).ok
        THEN ret' = Stubbed(fakeOutput(name, args).out)
        ELSE \E err \in RealErrors : ret' = Launched(err)
  /\ UNCHANGED <<wifiVars, wizVars, svcVars, call, mockVars, envVars, adVars>>

\* ─────────────── executil.Mock ───────────────
\* calls each goroutine makes through the Mock
MaxMockCalls == 2

\* the goroutines that share one Mock: an apply goroutine and Start's ticker
MockCallers == 1..2

MockCall(name, args) == [Name |-> name, Args |-> args]

\* the k-th command of caller c
MockCommands(c, k) ==
  IF c = 1
  THEN MockCall("systemctl", << "stop", IF k % 2 = 1 THEN "hostapd" ELSE "dnsmasq" >>)
  ELSE MockCall("arp", << IF k % 2 = 1 THEN "-a" ELSE "-n" >>)

\* strings.Join(args, " ")
RECURSIVE Join(_)
Join(args) ==
  IF args = << >> THEN ""
  ELSE IF Len(args) = 1 THEN args[1]
  ELSE args[1] \o " " \o Join(Tail(args))

\* record's key: "name arg1 arg2 ..."
MockKey(c) == IF Len(c.Args) > 0 THEN c.Name \o " " \o Join(c.Args) ELSE c.Name

\* the zero MockResult
NoMockResult == [Output |-> "", Err |-> ""]

MockResults == { [Output |-> "? (192.168.77.50) at a1:b2:c3:d4:e5:f6 on wlan0", Err |-> ""] }

MockInit ==
  /\ mock = [Calls |-> << >>, responses |-> [k \in {} |-> NoMockResult]]
  /\ caller = [c \in MockCallers |->
                 [pc |-> "idle", loaded |-> << >>, made |-> 0, got |-> << >>]]

\* Mock.Expect, called by the test before it starts the code under test
Expect(command, result) ==
  /\ \A c \in MockCallers : caller[c].pc = "idle" /\ caller[c].made = 0
  /\ command \notin DOMAIN mock.responses
  /\ mock' = [mock EXCEPT !.responses =
                [k \in DOMAIN mock.responses \cup {command} |->
                   IF k = command THEN result ELSE mock.responses[k]]]
  /\ UNCHANGED <<wifiVars, wizVars, svcVars, funcVars, caller, envVars, adVars>>

\* Mock.record, first half of m.Calls = append(m.Calls, ...): the slice is
\* read; no lock is held, so other goroutines run between the halves
recordLoad(c) ==
  /\ caller[c].pc = "idle"
  /\ caller[c].made < MaxMockCalls
  /\ caller' = [caller EXCEPT ![c].pc = "store", ![c].loaded = mock.Calls]
  /\ UNCHANGED <<wifiVars, wizVars, svcVars, funcVars, mock, envVars, adVars>>

\* Mock.record, second half: the slice that was read, with the call appended,
\* is stored to m.Calls; then the response is looked up and returned
recordStore(c) ==
  /\ caller[c].pc = "store"
  /\ LET cmd == MockCommands(c, caller[c].made + 1)
         r == IF MockKey(cmd) \in DOMAIN mock.responses
              THEN mock.responses[MockKey(cmd)] ELSE NoMockResult
     IN /\ mock' = [mock EXCEPT !.Calls = Append(caller[c].loaded, cmd)]
        /\ caller' = [caller EXCEPT ![c].pc = "idle",
                                    ![c].made = @ + 1,
                                    ![c].got = Append(@, r)]
  /\ UNCHANGED <<wifiVars, wizVars, svcVars, funcVars, envVars, adVars>>

MockNext ==
  \/ \E r \in MockResults : Expect("arp -a", r)
  \/ \E c \in MockCallers : recordLoad(c)
  \/ \E c \in MockCallers : recordStore(c)

\* ─────────────── RealWiFi.Connect ───────────────
ConnectInputs == [ssid : {"HomeNet", "Hotspot"}, password : {"s3cr3t", ""}]

\* the four commands of Connect, in program order
ConnectCommands(ssid, password) ==
  << MockCall("nmcli", <<"con", "down", "Hotspot">>),
     MockCall("nmcli", <<"con", "delete", "Hotspot">>),
     MockCall("nmcli", <<"con", "delete", ssid>>),
     MockCall("nmcli", <<"dev", "wifi", "connect", ssid, "password", password>>) >>

\* Connect is called on a RealWiFi whose commander records what it runs
ConnectInit ==
  /\ \E a \in ConnectInputs : call = [fn |-> "RealWiFi.Connect", arg |-> a]
  /\ ret = [done |-> FALSE, failed |-> {}, err |-> ""]
  /\ mock = [Calls |-> << >>]
  /\ caller = << >>

\* a Connect that gives up when a command of the hotspot teardown fails
connectTeardownChecked ==
  /\ call.fn = "RealWiFi.Connect"
  /\ ~ret.done
  /\ Len(mock.Calls) < 3
  /\ LET k == Len(mock.Calls) + 1
         cmd == ConnectCommands(call.arg.ssid, call.arg.password)[k]
     IN \E ok \in BOOLEAN :
          /\ mock' = [mock EXCEPT !.Calls = Append(@, cmd)]
          /\ ret' = IF ok THEN ret
                    ELSE [done |-> TRUE, failed |-> ret.failed \cup {k},
                          err |-> "wifi: teardown failed"]
  /\ UNCHANGED <<wifiVars, wizVars, svcVars, call, caller, envVars, adVars>>

\* w.cmd.Run("nmcli", "con", "down" / "delete", ...): the result is dropped
connectTeardown ==
  /\ call.fn = "RealWiFi.Connect"
  /\ ~ret.done
  /\ Len(mock.Calls) < 3
  /\ LET k == Len(mock.Calls) + 1
         cmd == ConnectCommands(call.arg.ssid, call.arg.password)[k]
     IN \E ok \in BOOLEAN :
          /\ mock' = [mock EXCEPT !.Calls = Append(@, cmd)]
          /\ ret' = IF ok THEN ret ELSE [ret EXCEPT !.failed = @ \cup {k}]
  /\ UNCHANGED <<wifiVars, wizVars, svcVars, call, caller, envVars, adVars>>

\* w.cmd.CombinedOutput("nmcli", "dev", "wifi", "connect", ...): its error is
\* wrapped and returned
connectDial ==
  /\ call.fn = "RealWiFi.Connect"
  /\ ~ret.done
  /\ Len(mock.Calls) = 3
  /\ LET cmd == ConnectCommands(call.arg.ssid, call.arg.password)[4]
     IN \E ok \in BOOLEAN :
          /\ mock' = [mock EXCEPT !.Calls = Append(@, cmd)]
          /\ ret' = [ret EXCEPT !.done = TRUE,
                                !.failed = IF ok THEN @ ELSE @ \cup {4},
                                !.err = IF ok THEN ""
                                        ELSE "wifi: connect to " \o call.arg.ssid \o " failed"]
  /\ UNCHANGED <<wifiVars, wizVars, svcVars, call, caller, envVars, adVars>>

ConnectNext ==
  \/ connectTeardown
  \/ connectDial

\* ─────────────── ad-block service ───────────────
MaxAdRequests == 3
MaxAdTicks == 1

AdScheduler == 0
AdGoroutines == 0..MaxAdRequests

\* a request body: one that does not decode, or an AdBlockConfig
AdBodies == [valid : BOOLEAN, Enabled : BOOLEAN]

AdIdle == [pc |-> "idle", req |-> FALSE, enabled |-> FALSE, ticks |-> 0, reply |-> NoReply]

\* New followed by Start: blocking off, nothing downloading, the scheduler
\* loop at the top of its for
AdBlockInit ==
  /\ adblock = [state  |-> [Enabled |-> FALSE, UpdateSchedule |-> "daily"],
                status |-> [Enabled |-> FALSE, EntryCount |-> 0,
                            UpdateError |-> "", Updating |-> FALSE]]
  /\ adGor = [g \in AdGoroutines |->
               IF g = AdScheduler THEN [AdIdle EXCEPT !.pc = "read"] ELSE AdIdle]

AdFree == {g \in AdGoroutines \ {AdScheduler} : adGor[g].pc = "idle"}
AdSlot == CHOOSE g \in AdFree : \A h \in AdFree : g <= h

\* where a goroutine goes when downloadAndApply returns
AdReturn(g) == IF g = AdScheduler THEN "read" ELSE "done"

AdOthers == <<wifiVars, wizVars, svcVars, funcVars, mockVars, envVars>>

\* handleSetConfig up to s.mu.RUnlock: decode, read wasEnabled
adblockHandleSetConfig(body) ==
  /\ AdFree # {}
  /\ adGor' = [adGor EXCEPT ![AdSlot] =
       IF body.valid
       THEN [@ EXCEPT !.pc = "store", !.req = body.Enabled,
                      !.enabled = adblock.state.Enabled]
       ELSE [@ EXCEPT !.pc = "done",
                      !.reply = HttpError("invalid JSON", StatusBadRequest)]]
  /\ UNCHANGED <<adblock, AdOthers>>

\* handleSetConfig from s.mu.Lock: store the config, spawn the goroutine, reply
adblockStoreConfig(g) ==
  /\ adGor[g].pc = "store"
  /\ adblock' = [adblock EXCEPT !.state.Enabled = adGor[g].req]
  /\ adGor' = [adGor EXCEPT ![g] =
       [@ EXCEPT !.pc = IF adGor[g].req /\ ~adGor[g].enabled THEN "downloadAndApply"
                        ELSE IF ~adGor[g].req /\ adGor[g].enabled THEN "disable"
                        ELSE "done",
                 !.reply = Json("applying")]]
  /\ UNCHANGED AdOthers

\* handleUpdate
adblockHandleUpdate ==
  /\ AdFree # {}
  /\ adGor' = [adGor EXCEPT ![AdSlot] =
       IF adblock.state.Enabled
       THEN [@ EXCEPT !.pc = "downloadAndApply", !.reply = Json("updating")]
       ELSE [@ EXCEPT !.pc = "done",
                      !.reply = HttpError("ad blocking is not enabled", StatusBadRequest)]]
  /\ UNCHANGED <<adblock, AdOthers>>

\* downloadAndApply, first critical section: return if Updating, else set it
downloadAndApply(g) ==
  /\ adGor[g].pc = "downloadAndApply"
  /\ IF adblock.status.Updating
     THEN /\ adGor' = [adGor EXCEPT ![g].pc = AdReturn(g)]
          /\ UNCHANGED adblock
     ELSE /\ adblock' = [adblock EXCEPT !.status.Updating = TRUE]
          /\ adGor' = [adGor EXCEPT ![g].pc = "get"]
  /\ UNCHANGED AdOthers

\* s.client.Get, the status code and writeAdblockConf: any of them may fail
adblockGet(g) ==
  /\ adGor[g].pc = "get"
  /\ \E ok \in BOOLEAN :
       adGor' = [adGor EXCEPT ![g].pc = IF ok THEN "apply" ELSE "setError"]
  /\ UNCHANGED <<adblock, AdOthers>>

\* setError, then return
setError(g) ==
  /\ adGor[g].pc = "setError"
  /\ adblock' = [adblock EXCEPT !.status.UpdateError = "download failed"]
  /\ adGor' = [adGor EXCEPT ![g].pc = "deferred"]
  /\ UNCHANGED AdOthers

\* dnsmasq reloaded; the last critical section of downloadAndApply
adblockApplied(g) ==
  /\ adGor[g].pc = "apply"
  /\ adblock' = [adblock EXCEPT !.status.Enabled = TRUE,
                                !.status.EntryCount = 1,
                                !.status.UpdateError = ""]
  /\ adGor' = [adGor EXCEPT ![g].pc = "deferred"]
  /\ UNCHANGED AdOthers

\* the deferred function of downloadAndApply
adblockDeferred(g) ==
  /\ adGor[g].pc = "deferred"
  /\ adblock' = [adblock EXCEPT !.status.Updating = FALSE]
  /\ adGor' = [adGor EXCEPT ![g].pc = AdReturn(g)]
  /\ UNCHANGED AdOthers

\* disable: adblock.conf removed, dnsmasq reloaded, s.status = Status{Enabled: false}
disable(g) ==
  /\ adGor[g].pc = "disable"
  /\ adblock' = [adblock EXCEPT !.status = [Enabled |-> FALSE, EntryCount |-> 0,
                                            UpdateError |-> "", Updating |-> FALSE]]
  /\ adGor' = [adGor EXCEPT ![g].pc = "done"]
  /\ UNCHANGED AdOthers

\* the scheduler loop reads enabled and schedule, then waits in its select
adblockLoopRead ==
  /\ adGor[AdScheduler].pc = "read"
  /\ adGor' = [adGor EXCEPT ![AdScheduler] =
                [@ EXCEPT !.pc = "select", !.enabled = adblock.state.Enabled]]
  /\ UNCHANGED <<adblock, AdOthers>>

\* case <-time.After(interval)
adblockLoopTick ==
  /\ adGor[AdScheduler].pc = "select"
  /\ adGor[AdScheduler].ticks < MaxAdTicks
  /\ adGor' = [adGor EXCEPT ![AdScheduler] =
                [@ EXCEPT !.pc = IF adGor[AdScheduler].enabled
                                 THEN "downloadAndApply" ELSE "read",
                          !.ticks = @ + 1]]
  /\ UNCHANGED <<adblock, AdOthers>>

\* case <-ctx.Done()
adblockLoopDone ==
  /\ adGor[AdScheduler].pc = "select"
  /\ adGor' = [adGor EXCEPT ![AdScheduler].pc =
                IF adGor[AdScheduler].enabled THEN "disable" ELSE "done"]
  /\ UNCHANGED <<adblock, AdOthers>>

AdblockNext ==
  \/ \E body \in AdBodies : adblockHandleSetConfig(body)
  \/ \E g \in AdGoroutines : adblockStoreConfig(g)
  \/ adblockHandleUpdate
  \/ \E g \in AdGoroutines : downloadAndApply(g)
  \/ \E g \in AdGoroutines : adblockGet(g)
  \/ \E g \in AdGoroutines : setError(g)
  \/ \E g \in AdGoroutines : adblockApplied(g)
  \/ \E g \in AdGoroutines : adblockDeferred(g)
  \/ \E g \in AdGoroutines : disable(g)
  \/ adblockLoopRead
  \/ adblockLoopTick
  \/ adblockLoopDone

\* one call of one function, on each of its inputs
FuncInit ==
  /\ ret = NoRet
  /\ \/ \E cfg \in ConfigInputs : call = [fn |-> "handleSetConfig", arg |-> cfg]
     \/ \E cfg \in DnsmasqInputs : call = [fn |-> "writeDnsmasqConf", arg |-> cfg]
     \/ \E cmd \in DevCommands :
          \E fn \in {"DevRunner.Run", "DevRunner.Output", "DevRunner.CombinedOutput"} :
            call = [fn |-> fn, arg |-> cmd]

FuncNext ==
  \/ postConfig
  \/ writeDnsmasqConf
  \/ DevRunnerRun
  \/ DevRunnerOutput
  \/ DevRunnerCombinedOutput

\* ═══════════════════ specifications ═══════════════════

vars == <<wifiVars, wizVars, svcVars, auxVars>>

\* the Network Mode Manager, started after agent.New returned
Init == WifiInit /\ WizardQuiet /\ ServicesRunning /\ FuncQuiet /\ MockQuiet /\ Sequential /\ AdBlockInit

Next == WifiNext

Spec == Init /\ [][Next]_vars

\* agent.New bootstrapping connectivity, before any service is started
WizardBoot == WifiInit /\ WizardInit /\ ServicesIdle /\ FuncQuiet /\ MockQuiet /\ Sequential /\ AdBlockInit

WizardSpec == WizardBoot /\ [][WizardNext]_vars

\* Agent.Start from its call by main to its return
StartBoot == WifiInit /\ WizardQuiet /\ ServicesIdle /\ FuncQuiet /\ MockQuiet /\ Sequential /\ AdBlockInit

StartSpec == StartBoot /\ [][StartNext]_vars

\* single calls of the validating handler, writeDnsmasqConf and the DevRunner
FuncBoot == WifiInit /\ WizardQuiet /\ ServicesIdle /\ FuncInit /\ MockQuiet /\ Sequential /\ AdBlockInit

FuncSpec == FuncBoot /\ [][FuncNext]_vars

\* two goroutines of the code under test calling one executil.Mock
MockBoot == WifiInit /\ WizardQuiet /\ ServicesIdle /\ FuncQuiet /\ MockInit /\ Sequential /\ AdBlockInit

MockSpec == MockBoot /\ [][MockNext]_vars

\* the running agent from the cancellation of the root context on
ShutdownSpec == Init /\ [][ShutdownNext]_vars

\* the manager with a second request arriving while the first is applied
OverlapBoot ==
  WifiInit /\ WizardQuiet /\ ServicesRunning /\ FuncQuiet /\ MockQuiet /\ Overlapping
    /\ AdBlockInit

OverlapSpec == OverlapBoot /\ [][OverlapNext]_vars

\* the same with config updates only
UpdatesSpec == OverlapBoot /\ [][UpdatesNext]_vars

\* the ad-block service under config changes, manual updates and its scheduler
AdblockSpec == Init /\ [][AdblockNext]_vars

\* one call of RealWiFi.Connect
ConnectBoot == WifiInit /\ WizardQuiet /\ ServicesIdle /\ ConnectInit /\ Sequential /\ AdBlockInit

ConnectSpec == ConnectBoot /\ [][ConnectNext]_vars

\* every runnable goroutine is eventually scheduled and every timer fires
WizardFairSpec == WizardSpec /\ WF_vars(WizardRun)

\* ═══════════════════ Network Mode Manager: claims ═══════════════════

\* what the log of a finished teardown() looks like
TeardownLog == [i \in 1..Len(TeardownSteps) |-> TeardownSteps[i].op] \o << "Status{off}" >>

\* C1: every apply finishes its teardown (all teardown commands issued, Status
\* set to Off/inactive) before it issues any command of the requested mode's
\* provisioning sequence.
C1_TeardownBeforeProvisioning ==
  \A g \in Handlers :
    (gor[g].kind = "apply" /\ gor[g].pc \in {"readcfg", "prov", "provstatus", "seterr"})
      => /\ Len(gor[g].log) >= Len(TeardownLog)
         /\ SubSeq(gor[g].log, 1, Len(TeardownLog)) = TeardownLog

\* previous mode Router, requested mode Extender, provisioning commands issued
C1_Witness ==
  \E g \in Handlers :
    /\ gor[g].kind = "apply" /\ gor[g].mode = ModeExtender
    /\ gor[g].pc = "prov" /\ gor[g].idx > 2
    /\ files.hostapd.by = ModeRouter

\* artefacts a Router / an Extender provisioning left in the kernel
RouterArtefacts(k) ==
  \/ k.hostapd = ModeRouter \/ k.dnsmasq = ModeRouter
  \/ "eth0" \in k.nat \/ "eth0" \in k.fwd

ExtenderArtefacts(k) ==
  \/ k.hostapd = ModeExtender \/ k.dnsmasq = ModeExtender
  \/ k.wpa \/ k.dhclient \/ k.vap
  \/ "wlan0" \in k.nat \/ "wlan0" \in k.fwd

\* C2: in every reachable state the kernel-level configuration in effect was
\* provisioned by at most one mode: Router and Extender artefacts never coexist.
C2_OneModeProvisioned == ~(RouterArtefacts(kern) /\ ExtenderArtefacts(kern))

\* the values a wholesale write of Status can produce
RouterConfigs == {r.Router : r \in Requests} \cup {DefaultRouter}
ExtenderConfigs == {r.Extender : r \in Requests} \cup {DefaultExtender}
WholeSnapshots ==
  {ZeroStatus, OffStatus} \cup {RouterStatus(c) : c \in RouterConfigs}
                         \cup {ExtenderStatus(c) : c \in ExtenderConfigs}

\* C3: every write to Status replaces the whole snapshot, so a reader only ever
\* sees the complete result of one write, never fields of two different writes.
C3_WholesaleStatus == StatusRead \in WholeSnapshots

\* C4: when an apply attempt that targeted mode M finishes, successfully or
\* not, Status.Mode equals M.
C4_ModeReflectsTarget ==
  [][\A g \in Handlers :
       (gor[g].kind = "apply" /\ gor'[g].kind = "idle") => status'.Mode = gor[g].mode]_vars

\* C5 (as claimed): if any step of the router apply sequence fails, no command
\* of a later step is issued.
C5_AnyFailureAborts ==
  \A g \in Handlers :
    (gor[g].kind = "apply" /\ gor[g].mode = ModeRouter /\ gor[g].failed # 0)
      => Len(gor[g].log) = gor[g].failed

\* C5 (amended): if an error-checked step of the router apply sequence fails,
\* no later command is issued and nothing is rolled back: the log ends with the
\* failed command and the sequence is left.
C5_CheckedFailureAborts ==
  \A g \in Handlers :
    (gor[g].kind = "apply" /\ gor[g].mode = ModeRouter /\ gor[g].abortAt # 0)
      => /\ Len(gor[g].log) = gor[g].abortAt
         /\ gor[g].pc = "seterr"

\* a router apply whose dnsmasq restart failed after hostapd was started
C5_Witness ==
  \E g \in Handlers :
    /\ gor[g].kind = "apply" /\ gor[g].mode = ModeRouter
    /\ gor[g].abortAt = Len(TeardownLog) + 7
    /\ kern.hostapd = ModeRouter

\* the labels applyRouter / applyExtender wrap a command's error in
Wraps ==
  {RouterSteps[i].wrap : i \in 1..Len(RouterSteps)}
    \cup {ExtenderSteps(DefaultExtender)[i].wrap : i \in 1..Len(ExtenderSteps(DefaultExtender))}

\* C6 (as claimed): when a provisioning command fails during an apply, the
\* apply ends with Status.Error holding that command's error.
C6_AnyFailureRecorded ==
  [][\A g \in Handlers :
       (gor[g].kind = "apply" /\ gor[g].failed # 0 /\ gor'[g].kind = "idle")
         => \E w \in Wraps : status'.Error = Wrapf(w, CmdError(gor[g].failedOp))]_vars

\* C6 (amended): when an error-checked provisioning command fails during an
\* apply, the apply ends by setting Status.Error to "<step label>: <that
\* command's error>", and its goroutine returns, leaving the manager running.
C6_CheckedFailureRecorded ==
  [][\A g \in Handlers :
       (gor[g].kind = "apply" /\ gor[g].abortAt # 0 /\ gor'[g].kind = "idle")
         => /\ \E w \in Wraps \ {""} :
                 status'.Error = Wrapf(w, CmdError(gor[g].log[gor[g].abortAt]))
            /\ gor'[g] = Idle]_vars

\* a failed apply left its error in Status and the next config update was
\* accepted and is being applied
C6_Witness ==
  \E g \in Handlers :
    /\ gor[g].kind = "apply" /\ gor[g].pc = "teardown"
    /\ \E w \in Wraps \ {""} :
         status.Error = Wrapf(w, CmdError("systemctl restart hostapd"))

\* C7: in every Status snapshot the accessor returns, SubnetBase and GatewayIP
\* are non-empty only if Active is true.
C7_SubnetOnlyWhileActive ==
  ~StatusRead.Active => (StatusRead.SubnetBase = "" /\ StatusRead.GatewayIP = "")

\* an inactive snapshot published by the teardown that followed an active
\* router mode
C7_Witness ==
  /\ ~StatusRead.Active /\ StatusRead.Mode = ModeOff
  /\ files.dnsmasq.by = ModeRouter /\ kern.dnsmasq = "none"
  /\ nreq >= 2

\* position of the first occurrence of op in a command log, 0 if there is none
FirstIndex(log, op) ==
  IF \E i \in 1..Len(log) : log[i] = op
  THEN CHOOSE i \in 1..Len(log) : log[i] = op /\ \A j \in 1..(i - 1) : log[j] # op
  ELSE 0

\* C19: a router apply that ran to its Status write issued, in this relative
\* order: hostapd restart, gateway address assignment on wlan0, dnsmasq
\* restart, NAT masquerade rule addition.
C19_RouterCommandOrder ==
  \A g \in Handlers :
    (gor[g].kind = "apply" /\ gor[g].mode = ModeRouter /\ gor[g].pc = "provstatus")
      => LET log == gor[g].log
             ap == FirstIndex(log, "systemctl restart hostapd")
             gw == FirstIndex(log, "ip addr add gateway dev wlan0")
             dh == FirstIndex(log, "systemctl restart dnsmasq")
             nat == FirstIndex(log, "iptables -t nat -A POSTROUTING -o eth0 -j MASQUERADE")
         IN 0 < ap /\ ap < gw /\ gw < dh /\ dh < nat

\* a router apply has issued its whole sequence and is about to publish
C19_Witness ==
  \E g \in Handlers :
    /\ gor[g].kind = "apply" /\ gor[g].mode = ModeRouter /\ gor[g].pc = "provstatus"
    /\ kern.hostapd = ModeRouter /\ kern.dnsmasq = ModeRouter /\ "eth0" \in kern.nat

\* C20: an apply of mode Off issues the teardown commands and nothing else,
\* and ends by leaving Status = {Mode: Off, Active: false} with every other
\* field empty; in particular when the manager was Off already.
C20_OffApplyTearsDownOnly ==
  [][\A g \in Handlers :
       (gor[g].kind = "apply" /\ gor[g].mode = ModeOff /\ gor'[g].kind = "idle")
         => /\ gor[g].log = [i \in 1..Len(TeardownSteps) |-> TeardownSteps[i].op]
            /\ status' = [ZeroStatus EXCEPT !.Mode = ModeOff]]_vars

\* the manager is Off with nothing provisioned, a second apply(Off) has issued
\* its teardown commands and is about to write Status
C20_Witness ==
  \E g \in Handlers :
    /\ gor[g].kind = "apply" /\ gor[g].mode = ModeOff /\ gor[g].pc = "tdstatus"
    /\ Len(gor[g].log) = Len(TeardownSteps)
    /\ status = [ZeroStatus EXCEPT !.Mode = ModeOff] /\ kern = NoKern
    /\ nreq = 2

\* C22 (as claimed): the stored configuration changes only in a config update
\* that passed validation; stop and every other operation leave it unchanged.
C22_OnlyValidatedUpdates ==
  [][state' # state
       => (nreq' = nreq + 1 /\ state' \in Requests /\ validateConfig(state') = "")]_vars

\* C22 (amended): the stored configuration changes only in a config update
\* that passed validation, which replaces it by the request, or in a stop,
\* which sets its Mode to Off and nothing else; a rejected update and every
\* step of apply, teardown and the status refresh leave it unchanged.
C22_ValidatedUpdateOrStop ==
  [][/\ state' # state
          => /\ nreq' = nreq + 1
             /\ \/ (state' \in Requests /\ validateConfig(state') = "")
                \/ state' = [state EXCEPT !.Mode = ModeOff]
     /\ (nreq' = nreq + 1 /\ gor' = gor) => state' = state]_vars

\* a stop after an accepted router update: Mode is Off, the router settings
\* of the update are still stored
C22_Witness ==
  /\ state.Mode = ModeOff /\ state.Router = ReqRouter.Router
  /\ \E g \in Handlers : gor[g].kind = "teardown"

\* the goroutines a step started as apply goroutines
NewApplies == {g \in Handlers : gor'[g] # gor[g] /\ gor[g].pc = "done" /\ gor'[g].kind = "apply"}

\* C23: the handler step of an accepted config update answers "applying",
\* starts exactly one apply goroutine that has run nothing yet, and touches
\* neither Status nor the system; no later step of that goroutine changes
\* the answer.
C23_AppliedAsynchronously ==
  [][/\ (nreq' = nreq + 1 /\ state' \in Requests /\ NewApplies # {})
          => /\ reply' = Json("applying")
             /\ Cardinality(NewApplies) = 1
             /\ \A g \in NewApplies : gor'[g].pc = "start" /\ gor'[g].log = << >>
             /\ \A g \in Goroutines \ NewApplies : gor'[g] = gor[g]
             /\ UNCHANGED <<status, kern, files, nfail>>
     /\ (nreq' = nreq + 1 /\ reply'.body = "applying") => Cardinality(NewApplies) = 1
     /\ reply' # reply => nreq' = nreq + 1]_vars

\* an update was answered "applying" and its apply has since failed
C23_Witness ==
  /\ reply = Json("applying")
  /\ status.Error # ""
  /\ \A g \in Handlers : gor[g].pc = "done"

\* C24: a failing teardown command is swallowed: the teardown goes on with its
\* next command (or, after the last one, with the Status write), no error is
\* kept; the Status write sets {Off, inactive} and an apply of Router or
\* Extender then goes on to its provisioning sequence.
C24_TeardownFailureSwallowed ==
  [][\A g \in Goroutines :
       /\ (gor[g].pc = "teardown" /\ nfail' = nfail + 1 /\ gor'[g] # gor[g])
            => /\ gor'[g].pc \in {"teardown", "tdstatus"}
               /\ gor'[g].pc = "teardown" => gor'[g].idx = gor[g].idx + 1
               /\ gor'[g].err = "" /\ gor'[g].abortAt = 0
       /\ (gor[g].pc = "tdstatus" /\ gor'[g] # gor[g])
            => /\ status' = [ZeroStatus EXCEPT !.Mode = ModeOff]
               /\ (gor[g].kind = "apply" /\ gor[g].mode \in {ModeRouter, ModeExtender})
                    => gor'[g].pc = "readcfg"]_vars

\* "systemctl stop hostapd" failed in the teardown of an extender apply: the
\* router's hostapd is still running while the extender is being provisioned
C24_Witness ==
  \E g \in Handlers :
    /\ gor[g].kind = "apply" /\ gor[g].mode = ModeExtender /\ gor[g].pc = "prov"
    /\ nfail = 1 /\ gor[g].failed = 0
    /\ kern.hostapd = ModeRouter

\* C25: an extender apply that ran to its Status write brought up the station
\* connection (dhclient on wlan0 done) before it created the AP interface, and
\* configured the AP's address only after both.
C25_StationBeforeAPInterface ==
  \A g \in Handlers :
    (gor[g].kind = "apply" /\ gor[g].mode = ModeExtender /\ gor[g].pc = "provstatus"
       /\ ~gor[g].ecfg.UseSecondRadio)
      => LET log == gor[g].log
             sta == FirstIndex(log, "dhclient wlan0")
             ap == FirstIndex(log, "iw dev wlan0 interface add wlan0_ap type __ap")
             ip == FirstIndex(log, "ip addr add 192.168.200.1/24 dev wlan0_ap")
         IN 0 < sta /\ sta < ap /\ ap < ip

\* C26: whenever Status.Mode is Off, a tick of the refresh timer issues no
\* command and leaves Status unchanged.
C26_TickNoOpWhileStatusOff ==
  [][(status.Mode = ModeOff /\ gor[0].pc = "select" /\ gor'[0] # gor[0])
       => (gor'[0].pc = "select" /\ status' = status)]_vars

\* number of neighbour-table entries on interface iface
RECURSIVE CountOn(_, _)
CountOn(out, iface) ==
  IF out = << >> THEN 0
  ELSE (IF Head(out) = iface THEN 1 ELSE 0) + CountOn(Tail(out), iface)

\* C27: a refresh in an active mode sets ConnectedIPs to the number of
\* neighbour-table entries on Status.APInterface.
C27_CountsAPInterfaceOnly ==
  [][(gor[0].pc = "arp" /\ gor'[0].pc = "select" /\ status.Active /\ status' # status)
       => \E out \in ArpOutputs :
            status'.ConnectedIPs = CountOn(out, status.APInterface)]_vars

\* the passwords of the stored configuration and of every request body
Secrets ==
  UNION {{r.Router.Password, r.Extender.ExtenderPassword, r.Extender.UpstreamPassword} :
           r \in Requests \cup {InitialState}} \ {""}

\* the commands and file writes of teardown and of both provisioning sequences
AllOps ==
  {TeardownSteps[i].op : i \in 1..Len(TeardownSteps)}
    \cup {RouterSteps[i].op : i \in 1..Len(RouterSteps)}
    \cup UNION {{ExtenderSteps(c)[i].op : i \in 1..Len(ExtenderSteps(c))} :
                  c \in ExtenderConfigs}

\* the errors a failed apply can hand to Status.Error: a step label and the
\* error of the command, neither of which is built from a password
PasswordFreeErrors ==
  {""} \cup {Wrapf(w, CmdError(op)) : w \in Wraps, op \in AllOps}
       \cup {"unknown mode: " \o m : m \in {r.Mode : r \in Requests}}

\* C31: no field of a Status snapshot is a router, extender or upstream
\* password, and Status.Error is a step label with a command error, in which
\* no password occurs.
C31_NoCredentialsInStatus ==
  /\ \A f \in {"Mode", "SSID", "APInterface", "SubnetBase", "GatewayIP",
               "UpstreamSSID", "Error"} : StatusRead[f] \notin Secrets
  /\ StatusRead.Error \in PasswordFreeErrors

\* the router password went into hostapd.conf, the apply then failed and its
\* error is in Status
C31_Witness ==
  /\ files.hostapd.password = ReqRouter.Router.Password
  /\ StatusRead.Error # ""

\* C37: a refresh leaves a recorded Status.Error as it is.
C37_RefreshKeepsError ==
  [][(gor[0].pc = "arp" /\ gor'[0].pc = "select" /\ status.Error # "")
       => status'.Error = status.Error]_vars

\* the four steps of a mode whose success Status.Active stands for
EssentialOps ==
  {op \in AllOps :
     \/ op \in {"systemctl restart hostapd", "systemctl restart dnsmasq"}
     \/ op \in {"ip addr add 192.168.200.1/24 dev " \o i : i \in {"wlan0_ap", "wlan1"}}
     \/ op = "ip addr add gateway dev wlan0"
     \/ op \in {"iptables -t nat -A POSTROUTING -o eth0 -j MASQUERADE",
                "iptables -t nat -A POSTROUTING -o wlan0 -j MASQUERADE"}}

\* C39: an apply that publishes an active Status had no failure in its AP
\* daemon restart, gateway address assignment, DHCP/DNS daemon restart or NAT
\* masquerade rule.
C39_ActiveImpliesEssentialSteps ==
  [][\A g \in Handlers :
       (gor[g].pc = "provstatus" /\ gor'[g].kind = "idle" /\ status'.Active)
         => gor[g].failedOp \notin EssentialOps]_vars

\* every goroutine a handler started has returned
AllFinished == \A g \in Handlers : gor[g].pc = "done"

\* C34: when the last request was a stop, every goroutine has finished and no
\* command has failed, Status is {Off, inactive} and nothing a provisioning
\* sequence set up is still in effect.
C34_StopWins ==
  (AllFinished /\ nfail = 0 /\ nreq > 0 /\ reply = WriteHeader(StatusOK))
    => /\ status.Mode = ModeOff /\ ~status.Active
       /\ ~RouterArtefacts(kern) /\ ~ExtenderArtefacts(kern)

\* C35: when the last request was an accepted update, every apply has
\* finished and no command has failed, Status and the kernel configuration are
\* those of that update.
C35_LastUpdateWins ==
  (AllFinished /\ nfail = 0 /\ reply = Json("applying"))
    => /\ status.Mode = state.Mode
       /\ state.Mode = ModeRouter
            => /\ status.SSID = state.Router.SSID
               /\ status.SubnetBase = state.Router.SubnetBase
               /\ kern.hostapd = ModeRouter /\ kern.dnsmasq = ModeRouter
               /\ files.hostapd.ssid = state.Router.SSID
               /\ ~ExtenderArtefacts(kern)
       /\ state.Mode = ModeExtender
            => /\ status.SSID = state.Extender.ExtenderSSID
               /\ kern.hostapd = ModeExtender /\ kern.dnsmasq = ModeExtender
               /\ files.hostapd.ssid = state.Extender.ExtenderSSID
               /\ ~RouterArtefacts(kern)

\* C36: a provisioning sequence works on the mode and the parameters of one
\* valid update, and what it writes into hostapd.conf passes the validation
\* of the mode it provisions.
C36_ModeAndConfigOfOneUpdate ==
  /\ \A g \in Handlers :
       (gor[g].kind = "apply" /\ gor[g].pc \in {"prov", "provstatus"})
         => \E req \in OverlapRequests :
              /\ validateConfig(req) = ""
              /\ req.Mode = gor[g].mode
              /\ gor[g].mode = ModeRouter => req.Router = gor[g].rcfg
              /\ gor[g].mode = ModeExtender => req.Extender = gor[g].ecfg
  /\ files.hostapd.by # "none"
       => (files.hostapd.ssid # "" /\ Len(files.hostapd.password) >= 8)

\* ═══════════════════ bootstrap wizard: claims ═══════════════════

\* C8: with no connectivity and a bootstrap radio whose Connect always fails,
\* ensureConnectivity does not block forever: it returns, with a network-kind
\* error.
C8_ConnectivityTimeout ==
  (radio.fails /\ ~radio.internet)
    => <>(agent.pc = "returned"
            /\ \E k \in 1..Len(agent.err) : agent.err[k].Kind = KindNetwork)

\* some submitted join succeeded and its goroutine has passed its send on
\* connected
JoinSignalled == \E i \in Submissions : conn[i].ok /\ conn[i].pc = "returned"

\* C9: in a wizard run in which a submitted join succeeds and the portal's
\* context has not been cancelled, the done signal reaches the orchestrator
\* exactly once: it is never sent twice, and it is never lost (it has been
\* received, or it sits in the channel in front of the waiting orchestrator, or
\* the watcher is about to send it).
C9_DoneExactlyOnce ==
  /\ done.sent <= 1
  /\ done.recv <= done.sent
  /\ (JoinSignalled /\ ~portal.ctxDone)
       => \/ done.recv = 1
          \/ (done.sent = 1 /\ done.buf # << >> /\ agent.pc = "wait")
          \/ (done.sent = 0 /\ portal.watcher = "senddone")

\* two submitted joins succeeded, the orchestrator received done once
C9_Witness ==
  /\ done.recv = 1 /\ ~portal.ctxDone
  /\ \E i, j \in Submissions :
       i # j /\ conn[i].ok /\ conn[j].ok
             /\ conn[i].pc = "returned" /\ conn[j].pc = "returned"

\* C10: a second or later attempt to send the completion signal never blocks
\* its sender: no goroutine is ever parked in a send on connected or on done.
C10_SendNeverBlocks ==
  /\ portal.watcher # "blocked"
  /\ \A i \in Submissions : conn[i].pc # "blocked"

\* a later successful submission executed its send after the watcher had left
\* its select: the signal was dropped and the goroutine returned
C10_Witness ==
  /\ done.sent = 1
  /\ \E i \in Submissions : conn[i].ok /\ conn[i].dropped /\ conn[i].pc = "returned"

\* C11: when the wizard completes, the portal's context has been cancelled
\* before StopHotspot is called.
C11_CancelBeforeStopHotspot ==
  [][(agent.pc = "stophotspot" /\ agent'.pc = "sleep") => portal.ctxDone]_vars

\* C12: for every submission with a non-empty SSID the 200 response has been
\* written before the join attempt starts, and Connect is called only after
\* the settle delay has elapsed and with exactly the submitted SSID and
\* password.
C12_ResponseThenDelayedJoin ==
  \A i \in Submissions :
    /\ conn[i].ssid # "" => conn[i].resp = 200
    /\ (conn[i].pc = "connect" \/ conn[i].joinedWith # << >>)
         => (conn[i].resp = 200 /\ conn[i].delayed)
    /\ conn[i].joinedWith # << >>
         => conn[i].joinedWith = << conn[i].ssid, conn[i].password >>

\* Connect has been called for a submission of HomeNet / homepass1
C12_Witness ==
  \E i \in Submissions :
    /\ conn[i].joinedWith = << "HomeNet", "homepass1" >>
    /\ conn[i].resp = 200 /\ conn[i].delayed

\* C15: when connectivity is absent before and after the wizard, agent.New
\* returns no Agent and an error whose kind is Network; it returns an Agent
\* only when the probe found connectivity.
C15_NetworkKindOnFailure ==
  [][(agent.pc # "returned" /\ agent'.pc = "returned")
       => IF HasInternet
          THEN agent'.agentOut /\ agent'.err = NoError
          ELSE ~agent'.agentOut /\ KindOf(agent'.err) = KindNetwork]_vars

\* C16: after the wizard returned, ensureConnectivity probes repeatedly: it
\* gives up only after more than one probe found no connectivity.
C16_PollsBeforeFailing ==
  [][(agent.pc = "reprobe" /\ agent'.pc = "returned" /\ agent'.err # NoError)
       => agent'.polls >= 2]_vars

\* a submitted join was attempted and failed
JoinFailed ==
  \E i \in Submissions : conn[i].joinedWith # << >> /\ ~conn[i].ok

\* runSetupWizard has called StopHotspot
HotspotStopped == agent.pc \in {"sleep", "reprobe", "returned"}

\* C17: a wizard run whose join failed still reaches HotspotStopped: after a
\* Failed join the hotspot is eventually stopped.
C17_HotspotStoppedAfterFailure == JoinFailed ~> HotspotStopped

\* C18: on real hardware the DNS responder and the redirect rule are in place
\* whenever the HTTP listener is up (provisioned before it starts, removed
\* only after it stopped), and the rule never exists without the responder
\* (responder first on the way up, rule first on the way down), whichever
\* trigger stops the portal.
C18_RedirectBracketsListener ==
  ~portal.devMode
    => /\ portal.srv = "listening" => (portal.dns /\ portal.rule)
       /\ portal.rule => portal.dns
       /\ portal.pc \in {"unrule", "undns"} => portal.srv \in {"closed", "failed"}
       /\ portal.pc = "returned" => (~portal.dns /\ ~portal.rule)

\* the context was cancelled with no join: the listener has stopped, the rule
\* is removed and the responder is about to be shut down
C18_Witness ==
  /\ ~portal.devMode /\ portal.ctxDone /\ done.sent = 0
  /\ portal.pc = "undns" /\ portal.srv = "closed"
  /\ ~portal.rule /\ portal.dns

\* ═══════════════════ Agent.Start: claims ═══════════════════

\* C13: Agent.Start does not return until the root context has been cancelled
\* and the worker of every injected Service has returned.
C13_StartBlocksUntilCancelled ==
  agentStart.pc = "returned"
    => (ctxDone /\ \A s \in ServiceSet : worker[s].pc = "done")

\* C14: when a Service's Start returns an error, the error is logged and
\* nothing else happens: the step in which the failure surfaces and the step
\* in which it is logged leave the root context, Agent.Start and every other
\* worker as they were, and Agent.Start returns only when every worker is done.
C14_ServiceErrorOnlyLogged ==
  [][/\ \A s \in ServiceSet :
          (worker'[s].err # "" /\ worker'[s] # worker[s])
            => /\ ctxDone' = ctxDone
               /\ agentStart' = agentStart
               /\ \A t \in ServiceSet \ {s} : worker'[t] = worker[t]
               /\ worker'[s].pc = "done" => s \in critical'
     /\ (agentStart.pc # "returned" /\ agentStart'.pc = "returned")
          => \A s \in ServiceSet : worker[s].pc = "done"]_vars

\* the tunnel's failure has been logged while an HTTP server is still serving
\* under a live root context and Agent.Start is still waiting
C14_Witness ==
  /\ "tunnel" \in critical /\ worker["tunnel"].pc = "done"
  /\ worker["api"].pc = "serving"
  /\ ~ctxDone
  /\ agentStart.pc = "wait"

\* C32: a Connect that has returned issued "connection down Hotspot", then
\* "connection delete Hotspot", then the connect command, whatever the first
\* two returned; and the connect command is never issued before them.
C32_TeardownThenConnect ==
  call.fn = "RealWiFi.Connect"
    => LET cmds == ConnectCommands(call.arg.ssid, call.arg.password)
           dial == {i \in 1..Len(mock.Calls) : mock.Calls[i] = cmds[4]}
       IN /\ ret.done => dial # {}
          /\ \A i \in dial :
               \E d \in 1..(i - 1) : \E h \in (d + 1)..(i - 1) :
                 mock.Calls[d] = cmds[1] /\ mock.Calls[h] = cmds[2]

\* both hotspot commands failed and the connect command then succeeded
C32_Witness ==
  /\ call.fn = "RealWiFi.Connect" /\ ret.done
  /\ {1, 2} \subseteq ret.failed
  /\ ret.err = ""

\* the goroutines inside downloadAndApply, past its "already running" test
AdRunning ==
  {g \in AdGoroutines : adGor[g].pc \in {"get", "setError", "apply", "deferred"}}

\* C40: at most one download-and-apply of the ad-block service runs at any
\* time, and status.Updating is true exactly while one is running.
C40_OneDownloadAtATime ==
  /\ Cardinality(AdRunning) <= 1
  /\ adblock.status.Updating <=> AdRunning # {}

\* two downloads never run side by side (the first half of C40 alone)
C40_AtMostOne == Cardinality(AdRunning) <= 1

\* C38: when StopHotspot is called, the portal's HTTP listener has stopped,
\* its DNS redirect rule is removed and its DNS responder is shut down.
C38_PortalCleanedBeforeStopHotspot ==
  [][(agent.pc = "stophotspot" /\ agent'.pc = "sleep")
       => (portal.srv \in {"closed", "failed"} /\ ~portal.rule /\ ~portal.dns)]_vars

\* C33: when Agent.Start has returned, the manager's final teardown is
\* complete: its goroutine has returned and Status is {Off, inactive}.
C33_StartReturnsAfterTeardown ==
  agentStart.pc = "returned"
    => (gor[0].pc = "done" /\ status.Mode = ModeOff /\ ~status.Active)

\* ═══════════════════ validation, DNS providers, DevRunner: claims ═══════════════════

\* utf8.RuneCountInString: the bytes that are not continuation bytes (10xxxxxx)
RECURSIVE RuneCount(_)
RuneCount(b) ==
  IF b = << >> THEN 0
  ELSE (IF Head(b) \div 64 = 2 THEN 0 ELSE 1) + RuneCount(Tail(b))

\* the handler step on the posted body
PostStep == call.fn = "handleSetConfig" /\ nreq' = nreq + 1

\* the handler accepted the body: stored it, started one apply, said "applying"
PostAccepted ==
  /\ reply' = Json("applying")
  /\ state' = call.arg
  /\ Cardinality(NewApplies) = 1

\* the handler refused the body in the request itself and scheduled nothing
PostRejected ==
  /\ reply'.code = StatusBadRequest
  /\ UNCHANGED <<state, status, kern, files, gor>>

C29_ManagerCommandsStubbed ==
  (call.fn \in {"DevRunner.Run", "DevRunner.Output", "DevRunner.CombinedOutput"}
     /\ call.arg \in ManagerCommands /\ ret.done)
    => (~ret.launched /\ ret.err = "")

\* C30: the generated dnsmasq config names the server pair of the provider:
\* adguard gives 94.140.14.14 and 94.140.15.15, a provider that is not in the
\* table gives the default (cloudflare) pair.
C30_ProviderPair ==
  (call.fn = "writeDnsmasqConf" /\ ret.done /\ ret.err = "")
    => LET p == call.arg.DNSProvider
       IN /\ files.dnsmasq.subnet = call.arg.SubnetBase
          /\ p = "adguard" => files.dnsmasq.dns = <<"94.140.14.14", "94.140.15.15">>
          /\ p = "google" => files.dnsmasq.dns = <<"8.8.8.8", "8.8.4.4">>
          /\ p = "quad9" => files.dnsmasq.dns = <<"9.9.9.9", "149.112.112.112">>
          /\ p \notin {"adguard", "google", "quad9"}
               => files.dnsmasq.dns = <<"1.1.1.1", "1.0.0.1">>

\* a config was generated for a provider name that is not in the table
C30_Witness ==
  /\ call.fn = "writeDnsmasqConf" /\ ret.done /\ ret.err = ""
  /\ call.arg.DNSProvider = "opendns"
  /\ files.dnsmasq.by = ModeRouter

\* how often call cmd is in the Calls slice
RECURSIVE Recorded(_, _)
Recorded(calls, cmd) ==
  IF calls = << >> THEN 0
  ELSE (IF Head(calls) = cmd THEN 1 ELSE 0) + Recorded(Tail(calls), cmd)

\* C28: calls made concurrently through the Mock are each recorded once and
\* each get the result that was programmed for them.
C28_MockKeepsEveryCall ==
  \A c \in MockCallers :
    \A k \in 1..MaxMockCalls :
      (caller # << >> /\ caller[c].pc = "idle" /\ k <= caller[c].made)
        => /\ Recorded(mock.Calls, MockCommands(c, k)) = 1
           /\ caller[c].got[k] =
                (IF MockKey(MockCommands(c, k)) \in DOMAIN mock.responses
                 THEN mock.responses[MockKey(MockCommands(c, k))] ELSE NoMockResult)

====
